---------------------------- MODULE Spec2Model ----------------------------
(***************************************************************************)
(* Model of catalystcommunity/pulumi-modules-go: the aws-auth ConfigMap    *)
(* synchronisation (package eks) and its ARN helpers.                      *)
(*                                                                         *)
(* A Go string is modelled as a sequence of tokens.  The separator "/" is  *)
(* always a token of its own, so strings.Split(s, "/") is a split of the   *)
(* sequence at the "/" tokens.  The empty Go string is << >>.              *)
(***************************************************************************)
EXTENDS Integers, Sequences, FiniteSets, TLC

VARIABLES
    \* ---- SyncAuthConfigMap (one call) ----
    variant,        \* which SyncAuthConfigMap of the repository runs
    config,         \* AuthConfigMapInput
    pc,             \* position of the call
    nodeRoleArn,    \* local nodeRoleArn
    mapRoles,       \* local mapRoles []MapRolesElement
    mapUsers,       \* local mapUsers []MapUsersElement
    idx,            \* index of the next AutoDiscoverSSORoles entry
    data,           \* authConfigMapData / authConfigMap.Data
    err,            \* value returned by SyncAuthConfigMap (once pc = "done")
    ssoRet,         \* what the latest discoverSSORole call returned: roleArn, err
    calls,          \* provider lookups performed, in order, with their results
    files,          \* scratch files on disk: path -> content
    resources,      \* resources registered with the engine, in order
    applyRet,       \* << e >> once applyKubernetesManifest returned e, << >> before
    \* ---- ARN helpers applied to one input string ----
    arnIn,          \* the input string
    arnOut,         \* << removeArnPath(arnIn) >> once applied, << >> before
    arnOut2,        \* << removeArnPath(removeArnPath(arnIn)) >> once applied
    userOut,        \* << arnToUsername(arnIn) >> once applied
    \* ---- SyncKubernetesManifest (one call, or two) ----
    mvariant,       \* which SyncKubernetesManifest of the repository runs
    mcall,          \* the calls: name, manifest, position, local err, returned value
    tmpFiles,       \* the files in /tmp: path -> content
    applied,        \* what yaml.NewConfigFile registered, in order
    \* ---- deployPlatformApplicationManifest (one call) ----
    appVariant,     \* which deployPlatformApplicationManifest of the repository runs
    appCfg,         \* PlatformApplicationConfig
    template,       \* templates.PlatformApplicationBytes
    application,    \* << the local application >> once decoded, << >> before
    appPc,          \* position of the call
    appRet,         \* << the error returned >> once returned
    synced,         \* << what SyncArgocdApplication got and gave >>
    \* ---- main: the run function of pulumi.Run ----
    body,           \* how the body of the run function ends
    mainPc,         \* position of the run function
    mainErr,        \* the named result err
    panicking,      \* << v >> while a panic with value v unwinds, << >> otherwise
    mainLog,        \* what errorutils.LogOnErr logged
    mainRet,        \* << the error pulumi.Run got >> once the function returned
    \* ---- CreateVpcInfrastructure (one call) ----
    vpcConfig,      \* VpcConfigInput
    vpcPc,          \* position of the call
    azIdx,          \* the loop index i
    vpcLocals,      \* IDs held by the locals vpc, internetGateway, publicSubnet, ...
    vpcResources,   \* resources registered with the engine, in order
    output,         \* the local output VpcInfrastructureOutput
    vpcRet,         \* << what the call returned: output, err >> once returned
    \* ---- applyKubernetesManifest (one run of the program) and the engine ----
    shimInput,      \* the call: name, manifest
    shimMode,       \* what the engine is asked to do: "update" or "preview"
    shimPrior,      \* << the trigger the stack's state holds for the command >>, << >> if none
    shimPc,         \* position: the shim's steps, then the engine, then "finished"
    shimFiles,      \* the files in /tmp: path -> content
    shimCmd,        \* << the command registered >>, << >> before
    shimRet,        \* << the error the shim returned >>, << >> before
    kubectlLog,     \* what the engine's command did: manifest applied or failed, in order
    \* ---- ReplaceSecretsFromPulumi (the lookups of one source, in order) ----
    secKeys,        \* the keys templating.TemplateWithFunction hands to the function, in order
    deferredAt,     \* index of the lookup whose output the engine never resolves, 0 for none
    secIdx,         \* index of the running lookup
    secPc,          \* position in the lookup: "start", "registered", "waiting"; "returned" at the end
    wg,             \* counter of the sync.WaitGroup of the running lookup
    callback,       \* the ApplyT callback of the running lookup: "none", "pending", "invoked"
    secretValue,    \* the local secretValue of the running lookup
    received,       \* << the value the callback received >> in the running lookup, << >> before
    secRets,        \* what the lookups returned so far: value, err, and the value the callback got
    \* ---- BootstrapCluster (both variants of the source) ----
    bsVariant,      \* which BootstrapCluster runs: "bootstrap.go" or "part_002"
    bsConfig,       \* the k8s and platform-application stack configuration
    bsPc,           \* position in BootstrapCluster
    bsLocals,       \* prometheusRemoteWriteSecret, prometheus, argocd, platformApplication
    bsRegistered,   \* the registrations so far, each with the depends-on list it was given
    bsApplied,      \* names of the resources applied to the cluster so far
    bsRet,          \* << error >> once BootstrapCluster returned, << >> before
    \* ---- CreateEksCluster ----
    eksInput,       \* the EksConfigInput the caller passed
    eksIssuer,      \* the issuer URL of the cluster's OIDC identity, character by character
    eksConfig,      \* the function's copy of the EksConfigInput
    eksLocals,      \* clusterAutoscalerServiceAccount and clusterAutoscalerNamespace
    eksPc,          \* position in CreateEksCluster
    eksNgIdx,       \* index of the node group the loop is at
    eksResources,   \* the registrations so far
    eksRet,         \* << error >> once CreateEksCluster returned, << >> before
    \* ---- discoverSSORole against the roles of an account ----
    provisioned,    \* the permission sets that have a role in the account
    lookupConfig,   \* the AutoDiscoverSSORoles entry SyncAuthConfigMap is at
    lookupPc,       \* "start", "returned" after discoverSSORole, "bound" or "failed" at the end
    lookupRoles,    \* the answer of iam.GetRoles
    lookupRet,      \* what discoverSSORole returned
    lookupBound     \* the mapRoles elements appended for the entry

authVars == <<variant, config, pc, nodeRoleArn, mapRoles, mapUsers, idx, data,
              err, ssoRet, calls, files, resources, applyRet>>
arnVars  == <<arnIn, arnOut, arnOut2, userOut>>
manVars  == <<mvariant, mcall, tmpFiles, applied>>
appVars  == <<appVariant, appCfg, template, application, appPc, appRet, synced>>
mainVars == <<body, mainPc, mainErr, panicking, mainLog, mainRet>>
vpcVars  == <<vpcConfig, vpcPc, azIdx, vpcLocals, vpcResources, output, vpcRet>>
shimVars == <<shimInput, shimMode, shimPrior, shimPc, shimFiles, shimCmd, shimRet, kubectlLog>>
secVars  == <<secKeys, deferredAt, secIdx, secPc, wg, callback, secretValue, received, secRets>>
bsVars   == <<bsVariant, bsConfig, bsPc, bsLocals, bsRegistered, bsApplied, bsRet>>
eksVars  == <<eksInput, eksIssuer, eksConfig, eksLocals, eksPc, eksNgIdx, eksResources, eksRet>>
ssoVars  == <<provisioned, lookupConfig, lookupPc, lookupRoles, lookupRet, lookupBound>>
vars     ==
    <<authVars, arnVars, manVars, appVars, mainVars, vpcVars,
      shimVars, secVars, bsVars, eksVars, ssoVars>>

----------------------------------------------------------------------------
(* Bounds *)

\* longest input string of the ARN helper specification
MaxLen == 5
\* most entries over AutoDiscoverSSORoles, IAMRoles and IAMUsers together
MaxEntries == 2
\* most ARNs one iam.GetRoles search returns
MaxMatches == 2
\* availability zones of a VPC configuration
MaxAz == 2
\* keys in the source ReplaceSecretsFromPulumi is given
MaxKeys == 3
\* node groups of an EKS configuration
MaxNodeGroups == 2

----------------------------------------------------------------------------
(* Strings *)

Sep == "/"

RECURSIVE SeqsUpTo(_, _)
SeqsUpTo(S, n) ==
    IF n = 0 THEN {<< >>}
    ELSE LET shorter == SeqsUpTo(S, n - 1)
         IN  shorter \cup {Append(s, c) : s \in {t \in shorter : Len(t) = n - 1}, c \in S}

\* index of the first occurrence of token c in s, 0 when there is none
IndexOf(s, c) ==
    IF \E i \in 1..Len(s) : s[i] = c
    THEN CHOOSE i \in 1..Len(s) : s[i] = c /\ \A j \in 1..(i - 1) : s[j] # c
    ELSE 0

\* strings.Split(s, sep) for a one-token separator: n separators give n + 1
\* pieces, and a string without separator (the empty one too) gives << s >>
RECURSIVE Split(_, _)
Split(s, sep) ==
    LET i == IndexOf(s, sep)
    IN  IF i = 0 THEN << s >>
        ELSE << SubSeq(s, 1, i - 1) >> \o Split(SubSeq(s, i + 1, Len(s)), sep)

\* strings.Join(parts, sep)
RECURSIVE Join(_, _)
Join(parts, sep) ==
    IF Len(parts) = 0 THEN << >>
    ELSE IF Len(parts) = 1 THEN parts[1]
    ELSE parts[1] \o << sep >> \o Join(Tail(parts), sep)

\* the "%d" verb of fmt.Sprintf for n >= 0
Digits == << "0", "1", "2", "3", "4", "5", "6", "7", "8", "9" >>
RECURSIVE Itoa(_)
Itoa(n) ==
    IF n < 10 THEN << Digits[n + 1] >>
    ELSE Itoa(n \div 10) \o << Digits[(n % 10) + 1] >>

\* a variant that joins the first two pieces instead of the first and the last
removeArnPath_FirstTwo(arn) ==
    LET a == Split(arn, Sep)
    IN  Join(<< a[1], a[IF Len(a) >= 2 THEN 2 ELSE 1] >>, Sep)
\* auth configmap doesn't support arns with paths, so we have to remove them
removeArnPath(arn) ==
    LET a == Split(arn, Sep)
    IN  Join(<< a[1], a[Len(a)] >>, Sep)

\* a result that takes the first piece instead of the last
arnToUsername_First(i) ==
    LET a == Split(i, Sep)
    IN  a[1]
\* trim an ARN to use in the username field
arnToUsername(i) ==
    LET a == Split(i, Sep)
    IN  a[Len(a)]

----------------------------------------------------------------------------
(* Input domains of SyncAuthConfigMap *)

Empty == << >>

\* the strings the inputs of a call are drawn from
PermissionSetNames == { << "Admin" >>, << "Dev" >> }
Usernames          == { Empty, << "alice" >> }
IamArns            == { << "arn:aws:iam::1:role", "/", "MyRole" >>,
                        << "arn:aws:iam::1:role", "/", "some", "/", "path", "/", "Other" >> }
NodeRoleArns       == { << "arn:aws:iam::1:role", "/", "eks", "/", "NodeRole" >> }
ClusterNames       == { Empty, << "prod" >> }
NodeGroupNames     == { << "ng-a" >>, << "ng-b" >> }
\* roles the provider may report under the SSO path prefix
SsoArns            == { << "arn:aws:iam::1:role", "/", "aws-reserved", "/", "sso.amazonaws.com", "/",
                           "AWSReservedSSO_Admin_1" >>,
                        << "arn:aws:iam::1:role", "/", "aws-reserved", "/", "sso.amazonaws.com", "/",
                           "AWSReservedSSO_Dev_2" >> }

\* the group list an input entry carries: one group for the first name or
\* ARN of its pool, two groups in a set order for the other
OneGroup  == << << "system:masters" >> >>
TwoGroups == << << "dev" >>, << "view" >> >>

SSORolePermissionSetInput ==
    { [Name |-> n, PermissionGroups |-> IF n = << "Admin" >> THEN OneGroup ELSE TwoGroups,
       Username |-> u] : n \in PermissionSetNames, u \in Usernames }
IAMIdentityInput ==
    { [Arn |-> a, PermissionGroups |-> IF Len(a) = 3 THEN OneGroup ELSE TwoGroups,
       Username |-> u] : a \in IamArns, u \in Usernames }

\* the sequences over S of length n
RECURSIVE SeqsOfLen(_, _)
SeqsOfLen(S, n) ==
    IF n = 0 THEN {<< >>}
    ELSE {Append(s, c) : s \in SeqsOfLen(S, n - 1), c \in S}

\* lengths of the three identity lists, MaxEntries entries at most in all
ListLens ==
    { l \in (0..MaxEntries) \X (0..MaxEntries) \X (0..MaxEntries) :
        l[1] + l[2] + l[3] <= MaxEntries }

AuthConfigMapInput ==
    UNION { [InitialImport : BOOLEAN,
             NodeGroupIamRole : {Empty} \cup NodeRoleArns,
             NodeGroupIamRoleAutoDiscover : BOOLEAN,
             EKSClusterName : ClusterNames,
             AutoDiscoverSSORoles : SeqsOfLen(SSORolePermissionSetInput, l[1]),
             IAMRoles : SeqsOfLen(IAMIdentityInput, l[2]),
             IAMUsers : SeqsOfLen(IAMIdentityInput, l[3])] : l \in ListLens }

\* the two SyncAuthConfigMap of the repository: the one that registers a
\* ConfigMap resource and the one that applies the manifest with kubectl
Variants == { "configmap", "kubectl" }

----------------------------------------------------------------------------
(* Errors and provider responses *)

Nil == [kind |-> "nil", msg |-> << >>]

ErrNoClusterName ==
    [kind |-> "config",
     msg  |-> << "Node Group IAM Role auto discover enabled, but EKS cluster name not supplied" >>]
ErrNoNodeRole ==
    [kind |-> "config",
     msg  |-> << "Node Group IAM Role not supplied, auto discover not enabled" >>]

\* errors a provider call (or the engine, or the file system) may return
ProviderErrors == { [kind |-> "provider", msg |-> << "AccessDenied" >>] }
IoErrors       == { [kind |-> "io", msg |-> << "permission denied" >>] }

\* eks.GetNodeGroups: an error, or the node group names in the provider's order
GetNodeGroupsResults ==
    [err : ProviderErrors, Names : {<< >>}]
    \cup [err : {Nil}, Names : {<< >>} \cup SeqsOfLen(NodeGroupNames, 1)
                                \cup {s \in SeqsOfLen(NodeGroupNames, 2) : s[1] # s[2]}]

\* eks.LookupNodeGroup: an error, or the node group with its NodeRoleArn
DiscoveredNodeRoleArns ==
    { << "arn:aws:iam::1:role", "/", "WorkerA" >>,
      << "arn:aws:iam::1:role", "/", "nodes", "/", "WorkerB" >> }
LookupNodeGroupResults ==
    [err : ProviderErrors, NodeRoleArn : {Empty}]
    \cup [err : {Nil}, NodeRoleArn : DiscoveredNodeRoleArns]

\* iam.GetRoles: an error, or the ARNs of the roles that match
GetRolesResults ==
    [err : ProviderErrors, Arns : {<< >>}]
    \cup [err : {Nil}, Arns : SeqsUpTo(SsoArns, MaxMatches)]

ssoRolePathPrefix == << "/", "aws-reserved", "/", "sso.amazonaws.com", "/" >>

----------------------------------------------------------------------------
(* discoverNodeIAMRole and discoverSSORole, given the provider's answers *)

\* assumes that all nodegroups have the same IAM role, so only finds the
\* roleArn of the first nodegroup discovered.  lookup maps the node group
\* name asked for to the provider's answer.  nodegroups.Names[0] of an empty
\* list is an index out of range: the call panics.
discoverNodeIAMRole(clusterName, nodegroups, lookup) ==
    LET getCall == [op |-> "GetNodeGroups", arg |-> clusterName,
                    err |-> nodegroups.err, result |-> nodegroups.Names]
    IN  IF nodegroups.err # Nil
        THEN [roleArn |-> Empty, err |-> nodegroups.err, panic |-> FALSE,
              calls |-> << getCall >>]
        ELSE IF Len(nodegroups.Names) = 0
        THEN [roleArn |-> Empty, err |-> Nil, panic |-> TRUE, calls |-> << getCall >>]
        ELSE LET nodegroup == lookup[nodegroups.Names[1]]
                 lookupCall == [op |-> "LookupNodeGroup", arg |-> nodegroups.Names[1],
                                err |-> nodegroup.err, result |-> << nodegroup.NodeRoleArn >>]
             IN  IF nodegroup.err # Nil
                 THEN [roleArn |-> Empty, err |-> nodegroup.err, panic |-> FALSE,
                       calls |-> << getCall, lookupCall >>]
                 ELSE [roleArn |-> nodegroup.NodeRoleArn, err |-> Nil, panic |-> FALSE,
                       calls |-> << getCall, lookupCall >>]

\* fmt.Sprintf("AWSReservedSSO_%s_.*", permissionSetName)
ssoRoleRegex(permissionSetName) ==
    << "AWSReservedSSO_" >> \o permissionSetName \o << "_.*" >>

\* errors.New(fmt.Sprintf("admin role auto discovery failed, discovered %d", n))
ErrDiscovered(n) ==
    [kind |-> "discovery",
     msg  |-> << "admin role auto discovery failed, ", "discovered " >> \o Itoa(n)]

\* a variant that takes the first match when there are several
discoverSSORole_FirstOfMany(permissionSetName, roles) ==
    IF roles.err # Nil THEN [roleArn |-> Empty, err |-> roles.err]
    ELSE IF Len(roles.Arns) = 0
    THEN [roleArn |-> Empty, err |-> ErrDiscovered(Len(roles.Arns))]
    ELSE [roleArn |-> roles.Arns[1], err |-> Nil]
\* roles is the answer of iam.GetRoles to the one search the function makes
discoverSSORole(permissionSetName, roles) ==
    IF roles.err # Nil THEN [roleArn |-> Empty, err |-> roles.err]
    ELSE IF Len(roles.Arns) # 1
    THEN [roleArn |-> Empty, err |-> ErrDiscovered(Len(roles.Arns))]
    ELSE [roleArn |-> roles.Arns[1], err |-> Nil]

----------------------------------------------------------------------------
(* Building the bindings *)

NodeUsername == << "system:node:{{EC2PrivateDNSName}}" >>
NodeGroups   == << << "system:bootstrappers" >>, << "system:nodes" >> >>

\* a variant that strips the path of the worker role as it does for the others
NodeBinding_Stripped(roleArn) ==
    [RoleArn |-> removeArnPath(roleArn), Username |-> NodeUsername, Groups |-> NodeGroups]
\* add nodegroup iam role to mapRoles
NodeBinding(roleArn) ==
    [RoleArn |-> roleArn, Username |-> NodeUsername, Groups |-> NodeGroups]

\* a variant in which the permission-set name wins over the Username override
SsoBinding_NameWins(ssoRoleConfig, roleArn) ==
    [RoleArn  |-> removeArnPath(roleArn),
     Username |-> ssoRoleConfig.Name,
     Groups   |-> ssoRoleConfig.PermissionGroups]
\* one iteration of the AutoDiscoverSSORoles loop after a successful lookup:
\* default username to the permissionset name
SsoBinding(ssoRoleConfig, roleArn) ==
    [RoleArn  |-> removeArnPath(roleArn),
     Username |-> IF ssoRoleConfig.Username # Empty THEN ssoRoleConfig.Username
                  ELSE ssoRoleConfig.Name,
     Groups   |-> ssoRoleConfig.PermissionGroups]

\* one iteration of the IAMRoles loop:
\* default username to the role name, derived from the role arn
RoleBinding(roleConfig) ==
    [RoleArn  |-> removeArnPath(roleConfig.Arn),
     Username |-> IF roleConfig.Username # Empty THEN roleConfig.Username
                  ELSE arnToUsername(roleConfig.Arn),
     Groups   |-> roleConfig.PermissionGroups]

\* one iteration of the IAMUsers loop
UserBinding(userConfig) ==
    [UserArn  |-> removeArnPath(userConfig.Arn),
     Username |-> IF userConfig.Username # Empty THEN userConfig.Username
                  ELSE arnToUsername(userConfig.Arn),
     Groups   |-> userConfig.PermissionGroups]

\* the IAMRoles loop, appending to roles in input order
RECURSIVE AddIamRoles(_, _)
AddIamRoles(roles, roleConfigs) ==
    IF roleConfigs = << >> THEN roles
    ELSE AddIamRoles(Append(roles, RoleBinding(Head(roleConfigs))), Tail(roleConfigs))

\* the IAMUsers loop, appending to users in input order
RECURSIVE AddIamUsers(_, _)
AddIamUsers(users, userConfigs) ==
    IF userConfigs = << >> THEN users
    ELSE AddIamUsers(Append(users, UserBinding(Head(userConfigs))), Tail(userConfigs))

\* a variant that puts the IAM users into mapRoles as well
FinalMapRoles_WithUsers(cfg, roles) ==
    IF cfg.InitialImport THEN roles
    ELSE AddIamRoles(roles, cfg.IAMRoles \o cfg.IAMUsers)
\* mapRoles after the loops that follow the SSO loop
FinalMapRoles(cfg, roles) ==
    IF cfg.InitialImport THEN roles ELSE AddIamRoles(roles, cfg.IAMRoles)

\* a variant that adds the IAM users in initial-import mode too
FinalMapUsers_IgnoresImport(cfg, users) ==
    AddIamUsers(users, cfg.IAMUsers)
\* mapUsers after the loops that follow the SSO loop
FinalMapUsers(cfg, users) ==
    IF cfg.InitialImport THEN users ELSE AddIamUsers(users, cfg.IAMUsers)

----------------------------------------------------------------------------
(* yaml.Marshal (gopkg.in/yaml.v2), as the lines of the document; a line is *)
(* << text, value >> or << text >>                                           *)

\* the block sequence of a []string field, "[]" inline when it is empty
GroupLines(groups) == [i \in 1..Len(groups) |-> << "  - ", groups[i] >>]

ElementLines(groups, arnKey, arn, username) ==
    (IF Len(groups) = 0 THEN << << "- groups: []" >> >>
     ELSE << << "- groups:" >> >> \o GroupLines(groups))
    \o << << arnKey, arn >>, << "  username: ", username >> >>

RECURSIVE MarshalMapRoles(_)
MarshalMapRoles(roles) ==
    IF roles = << >> THEN << << "[]" >> >>
    ELSE LET e == Head(roles)
         IN  ElementLines(e.Groups, "  rolearn: ", e.RoleArn, e.Username)
             \o (IF Tail(roles) = << >> THEN << >> ELSE MarshalMapRoles(Tail(roles)))

RECURSIVE MarshalMapUsers(_)
MarshalMapUsers(users) ==
    IF users = << >> THEN << << "[]" >> >>
    ELSE LET e == Head(users)
         IN  ElementLines(e.Groups, "  userarn: ", e.UserArn, e.Username)
             \o (IF Tail(users) = << >> THEN << >> ELSE MarshalMapUsers(Tail(users)))

\* a variant that always writes the mapUsers key
AuthData_AlwaysUsers(roles, users) ==
    ("mapRoles" :> MarshalMapRoles(roles)) @@ ("mapUsers" :> MarshalMapUsers(users))
\* marshal all the data fields; omit mapUsers if empty, otherwise import fails
AuthData(roles, users) ==
    IF Len(users) # 0
    THEN ("mapRoles" :> MarshalMapRoles(roles)) @@ ("mapUsers" :> MarshalMapUsers(users))
    ELSE ("mapRoles" :> MarshalMapRoles(roles))

\* yaml.Marshal(&authConfigMap): struct fields in declaration order, the keys
\* of the Data map sorted
MarshalConfigMap(d) ==
    << << "apiVersion: ", << "v1" >> >>, << "data:" >> >>
    \o (IF "mapRoles" \in DOMAIN d THEN << << "  mapRoles: |", d["mapRoles"] >> >> ELSE << >>)
    \o (IF "mapUsers" \in DOMAIN d THEN << << "  mapUsers: |", d["mapUsers"] >> >> ELSE << >>)
    \o << << "kind: ", << "ConfigMap" >> >>,
          << "metadata:" >>,
          << "  name: ", << "aws-auth" >> >>,
          << "  namespace: ", << "kube-system" >> >> >>

----------------------------------------------------------------------------
(* Registration and the kubectl shim *)

\* utils.GetImportOpt: no option for the empty id, pulumi.Import(id) otherwise
GetImportOpt(id) == IF id = Empty THEN << >> ELSE << [import |-> id] >>

\* fmt.Sprintf("/tmp/%s.yaml", pulumiResourceName)
TempFileName(pulumiResourceName) ==
    << "/", "tmp", "/" >> \o pulumiResourceName \o << ".yaml" >>

AuthResourceName == << "aws-auth-configmap" >>

\* corev1.NewConfigMap(ctx, "aws-auth-configmap", ..., GetImportOpt("kube-system/aws-auth"))
ConfigMapResource(d) ==
    [type |-> "kubernetes:core/v1:ConfigMap",
     name |-> AuthResourceName,
     args |-> [Data |-> d, Name |-> << "aws-auth" >>, Namespace |-> << "kube-system" >>],
     opts |-> GetImportOpt(<< "kube-system", "/", "aws-auth" >>)]

\* local.NewCommand(ctx, name, {Create: "kubectl apply -f <file>; rm <file>",
\* Triggers: [manifest]})
CommandResource(pulumiResourceName, manifest) ==
    [type |-> "command:local:Command",
     name |-> pulumiResourceName,
     args |-> [Create   |-> << "kubectl apply -f " >> \o TempFileName(pulumiResourceName)
                            \o << "; rm " >> \o TempFileName(pulumiResourceName),
               Triggers |-> << manifest >>],
     opts |-> << >>]

\* os.WriteFile(path, content, 0644) when it succeeds
WriteFile(fs, path, content) ==
    {f \in fs : f.path # path} \cup {[path |-> path, content |-> content]}

----------------------------------------------------------------------------
(* SyncAuthConfigMap *)

\* position after the node binding and after each SSO entry: the next SSO
\* entry when the mode has one left, the rest of the function otherwise.
\* A variant that runs the SSO loop in initial-import mode too:
AfterEntry_IgnoresImport(cfg, i) ==
    IF i <= Len(cfg.AutoDiscoverSSORoles) THEN "sso" ELSE "build"
\* the position per "if !config.InitialImport" and the range of the SSO loop
AfterEntry(cfg, i) ==
    IF ~cfg.InitialImport /\ i <= Len(cfg.AutoDiscoverSSORoles) THEN "sso" ELSE "build"

Return(e) ==
    /\ pc' = "done"
    /\ err' = e

\* a variant in which a configured NodeGroupIamRole wins over the flag
NodeRoleSource_ExplicitFirst(cfg) ==
    IF cfg.NodeGroupIamRole # Empty THEN "explicit"
    ELSE IF ~cfg.NodeGroupIamRoleAutoDiscover THEN "noNodeRole"
    ELSE IF cfg.EKSClusterName # Empty THEN "discover"
    ELSE "noClusterName"
\* a variant that falls back to the explicit role when auto-discovery is
\* enabled without a cluster name
NodeRoleSource_Fallback(cfg) ==
    IF cfg.NodeGroupIamRoleAutoDiscover /\ cfg.EKSClusterName # Empty THEN "discover"
    ELSE IF cfg.NodeGroupIamRole # Empty THEN "explicit"
    ELSE IF cfg.NodeGroupIamRoleAutoDiscover THEN "noClusterName"
    ELSE "noNodeRole"
\* the branch the nested conditions on the worker role configuration take
NodeRoleSource(cfg) ==
    IF cfg.NodeGroupIamRoleAutoDiscover
    THEN IF cfg.EKSClusterName # Empty THEN "discover" ELSE "noClusterName"
    ELSE IF cfg.NodeGroupIamRole # Empty THEN "explicit" ELSE "noNodeRole"

\* the worker role is resolved and its binding appended to mapRoles, or the
\* call returns the error
ResolveNodeRole ==
    /\ pc = "start"
    /\ UNCHANGED <<variant, config, mapUsers, idx, data, ssoRet, files, resources, applyRet>>
    /\ CASE NodeRoleSource(config) = "discover" ->
              \E nodegroups \in GetNodeGroupsResults :
              \E lookup \in [NodeGroupNames -> LookupNodeGroupResults] :
                 LET r == discoverNodeIAMRole(config.EKSClusterName, nodegroups, lookup)
                 IN  /\ calls' = calls \o r.calls
                     /\ IF r.panic
                        THEN /\ pc' = "panic"
                             /\ UNCHANGED <<err, nodeRoleArn, mapRoles>>
                        ELSE IF r.err # Nil
                        THEN /\ Return(r.err)
                             /\ UNCHANGED <<nodeRoleArn, mapRoles>>
                        ELSE /\ nodeRoleArn' = r.roleArn
                             /\ mapRoles' = Append(mapRoles, NodeBinding(r.roleArn))
                             /\ pc' = AfterEntry(config, idx)
                             /\ UNCHANGED err
         [] NodeRoleSource(config) = "noClusterName" ->
              /\ Return(ErrNoClusterName)
              /\ UNCHANGED <<nodeRoleArn, mapRoles, calls>>
         [] NodeRoleSource(config) = "explicit" ->
              /\ nodeRoleArn' = config.NodeGroupIamRole
              /\ mapRoles' = Append(mapRoles, NodeBinding(config.NodeGroupIamRole))
              /\ pc' = AfterEntry(config, idx)
              /\ UNCHANGED <<err, calls>>
         [] NodeRoleSource(config) = "noNodeRole" ->
              /\ Return(ErrNoNodeRole)
              /\ UNCHANGED <<nodeRoleArn, mapRoles, calls>>

\* a variant of the loop body that skips an entry whose lookup failed
DiscoverSSO_SkipsFailed ==
    /\ pc = "sso"
    /\ UNCHANGED <<variant, config, nodeRoleArn, mapUsers, data, files, resources, err, applyRet>>
    /\ \E roles \in GetRolesResults :
          LET ssoRoleConfig == config.AutoDiscoverSSORoles[idx]
              r == discoverSSORole(ssoRoleConfig.Name, roles)
          IN  /\ calls' = Append(calls, [op |-> "GetRoles",
                                         arg |-> ssoRoleRegex(ssoRoleConfig.Name),
                                         err |-> roles.err, result |-> roles.Arns])
              /\ ssoRet' = r
              /\ mapRoles' = IF r.err # Nil THEN mapRoles
                             ELSE Append(mapRoles, SsoBinding(ssoRoleConfig, r.roleArn))
              /\ idx' = idx + 1
              /\ pc' = AfterEntry(config, idx + 1)
\* one iteration of "add all sso autodiscovery roles"
DiscoverSSO ==
    /\ pc = "sso"
    /\ UNCHANGED <<variant, config, nodeRoleArn, mapUsers, data, files, resources, applyRet>>
    /\ \E roles \in GetRolesResults :
          LET ssoRoleConfig == config.AutoDiscoverSSORoles[idx]
              r == discoverSSORole(ssoRoleConfig.Name, roles)
          IN  /\ calls' = Append(calls, [op |-> "GetRoles",
                                         arg |-> ssoRoleRegex(ssoRoleConfig.Name),
                                         err |-> roles.err, result |-> roles.Arns])
              /\ ssoRet' = r
              /\ IF r.err # Nil
                 THEN /\ Return(r.err)
                      /\ UNCHANGED <<mapRoles, idx>>
                 ELSE /\ mapRoles' = Append(mapRoles, SsoBinding(ssoRoleConfig, r.roleArn))
                      /\ idx' = idx + 1
                      /\ pc' = AfterEntry(config, idx + 1)
                      /\ UNCHANGED err

\* ConfigMap variant: the IAM loops, the marshalling and corev1.NewConfigMap
RegisterConfigMap ==
    /\ pc = "build"
    /\ variant = "configmap"
    /\ UNCHANGED <<variant, config, nodeRoleArn, idx, ssoRet, calls, files, applyRet>>
    /\ mapRoles' = FinalMapRoles(config, mapRoles)
    /\ mapUsers' = FinalMapUsers(config, mapUsers)
    /\ data' = AuthData(mapRoles', mapUsers')
    /\ \E e \in {Nil} \cup ProviderErrors :
          /\ resources' = IF e = Nil THEN Append(resources, ConfigMapResource(data'))
                          ELSE resources
          /\ Return(e)

\* kubectl variant: the IAM loops, the marshalling and, in
\* applyKubernetesManifest, os.WriteFile; a failed write ends the shim, whose
\* result SyncAuthConfigMap drops: it returns the error of yaml.Marshal
WriteManifest ==
    /\ pc = "build"
    /\ variant = "kubectl"
    /\ UNCHANGED <<variant, config, nodeRoleArn, idx, ssoRet, calls, resources>>
    /\ mapRoles' = FinalMapRoles(config, mapRoles)
    /\ mapUsers' = FinalMapUsers(config, mapUsers)
    /\ data' = AuthData(mapRoles', mapUsers')
    /\ \E e \in {Nil} \cup IoErrors :
          IF e = Nil
          THEN /\ files' = WriteFile(files, TempFileName(AuthResourceName),
                                     MarshalConfigMap(data'))
               /\ pc' = "command"
               /\ UNCHANGED <<err, applyRet>>
          ELSE /\ UNCHANGED files
               /\ applyRet' = << e >>
               /\ Return(Nil)

\* kubectl variant: local.NewCommand in applyKubernetesManifest, then the
\* return of SyncAuthConfigMap
RegisterCommand ==
    /\ pc = "command"
    /\ UNCHANGED <<variant, config, nodeRoleArn, mapRoles, mapUsers, idx, data, ssoRet, calls,
                   files>>
    /\ \E e \in {Nil} \cup ProviderErrors :
          /\ resources' = IF e = Nil
                          THEN Append(resources,
                                      CommandResource(AuthResourceName, MarshalConfigMap(data)))
                          ELSE resources
          /\ applyRet' = << e >>
          /\ Return(Nil)

----------------------------------------------------------------------------
(* SyncKubernetesManifest: the scratch file, yaml.NewConfigFile and the     *)
(* deferred os.Remove.  Each call is a record; tmpFiles is the /tmp          *)
(* directory all calls share.                                               *)

\* the two SyncKubernetesManifest of the repository: the one that returns
\* (pulumi.Resource, error) and the older one that returns error
ManifestVariants == { "resource", "error" }

ManifestNames == { << "argocd" >>, << "cluster-services" >> }
Manifests     == { << "kind: Application" >>, << "kind: Secret" >> }
StaleContent  == << "kind: Stale" >>

\* what the filesystem answers for a path that does not exist
ErrNotExist == [kind |-> "io", msg |-> << "no such file or directory" >>]

FileAt(fs, path)     == {f \in fs : f.path = path}
\* os.Remove(path) when it succeeds
RemoveFile(fs, path) == fs \ FileAt(fs, path)

\* a call of SyncKubernetesManifest(ctx, name, manifest) before its first step
NewCall(name, manifest) ==
    [name |-> name, manifest |-> manifest, pc |-> "start", err |-> Nil,
     ret |-> << >>, writeErr |-> << >>, applyErr |-> << >>, removeErr |-> << >>]

\* the operands of "return resource, err" (of "return err" in the older one)
ReturnValue(v, name, e) ==
    [resource |-> IF v = "resource" /\ e = Nil THEN << name >> ELSE << >>,
     err      |-> e]

\* a variant where the cleanup follows the apply only when it succeeded
DeferredRemoveRuns_OnlyOnSuccess(e) == e = Nil

\* the defer statement follows the successful os.WriteFile: the deferred
\* function runs on every return after it, whatever yaml.NewConfigFile gave
DeferredRemoveRuns(e) == TRUE

\* a variant with a named result: the deferred assignment to err replaces
\* the value returned
ReturnedAfterDefer_Named(returned, removeErr) == [returned EXCEPT !.err = removeErr]

\* the results are unnamed: the operands of the return statement were
\* evaluated before the deferred function assigned os.Remove's result to the
\* local err, so the caller gets what the return statement evaluated
ReturnedAfterDefer(returned, removeErr) == returned

\* a variant without the return after a failed write
AfterWrite_NoReturn(call, e) == [call EXCEPT !.pc = "apply", !.err = e]

\* if err != nil { return nil, err } after os.WriteFile: the call with the
\* write's result e goes on to the apply, or returns e
AfterWrite(call, e) ==
    IF e # Nil
    THEN [call EXCEPT !.pc = "done", !.err = e,
                      !.ret = << [resource |-> << >>, err |-> e] >>]
    ELSE [call EXCEPT !.pc = "apply"]

\* os.WriteFile(tempFileName, manifest, 0644); a failure returns at once
WriteScratch(c) ==
    /\ mcall[c].pc = "start"
    /\ UNCHANGED <<mvariant, applied>>
    /\ \E e \in {Nil} \cup IoErrors :
          /\ tmpFiles' = IF e = Nil
                         THEN WriteFile(tmpFiles, TempFileName(mcall[c].name),
                                        mcall[c].manifest)
                         ELSE tmpFiles
          /\ mcall' = [mcall EXCEPT
                         ![c] = AfterWrite([mcall[c] EXCEPT !.writeErr = << e >>], e)]

\* yaml.NewConfigFile(ctx, name, {File: tempFileName}) reads the file and
\* registers its content; then the return statement evaluates its operands
ApplyManifest(c) ==
    /\ mcall[c].pc = "apply"
    /\ UNCHANGED <<mvariant, tmpFiles>>
    /\ LET found == FileAt(tmpFiles, TempFileName(mcall[c].name))
       IN  \E e \in (IF found = {} THEN {ErrNotExist} ELSE {Nil} \cup ProviderErrors) :
              /\ applied' = IF e = Nil
                            THEN Append(applied,
                                        [call |-> c, name |-> mcall[c].name,
                                         content |-> (CHOOSE f \in found : TRUE).content])
                            ELSE applied
              /\ mcall' = [mcall EXCEPT
                             ![c].err = e,
                             ![c].applyErr = << e >>,
                             ![c].ret = << ReturnValue(mvariant, mcall[c].name, e) >>,
                             ![c].pc = IF DeferredRemoveRuns(e) THEN "deferred" ELSE "done"]

\* the deferred function: err = os.Remove(tempFileName), logged when not nil
RemoveScratch(c) ==
    /\ mcall[c].pc = "deferred"
    /\ UNCHANGED <<mvariant, applied>>
    /\ LET path == TempFileName(mcall[c].name)
       IN  \E r \in (IF FileAt(tmpFiles, path) = {} THEN {ErrNotExist}
                     ELSE {Nil} \cup IoErrors) :
              /\ tmpFiles' = IF r = Nil THEN RemoveFile(tmpFiles, path) ELSE tmpFiles
              /\ mcall' = [mcall EXCEPT
                             ![c].err = r,
                             ![c].removeErr = << r >>,
                             ![c].ret = << ReturnedAfterDefer(mcall[c].ret[1], r) >>,
                             ![c].pc = "done"]

----------------------------------------------------------------------------
(* The ARN helpers applied to every short string *)

Alphabet == { "a", "b", Sep }

CallRemoveArnPath ==
    /\ arnOut = << >>
    /\ arnOut' = << removeArnPath(arnIn) >>
    /\ UNCHANGED <<arnIn, arnOut2, userOut>>

CallRemoveArnPathAgain ==
    /\ arnOut # << >>
    /\ arnOut2 = << >>
    /\ arnOut2' = << removeArnPath(arnOut[1]) >>
    /\ UNCHANGED <<arnIn, arnOut, userOut>>

CallArnToUsername ==
    /\ userOut = << >>
    /\ userOut' = << arnToUsername(arnIn) >>
    /\ UNCHANGED <<arnIn, arnOut, arnOut2>>

----------------------------------------------------------------------------
(* deployPlatformApplicationManifest: the Application template, the three  *)
(* overrides of the stack configuration, SyncArgocdApplication              *)

\* the two deployPlatformApplicationManifest of the repository: the one that
\* returns (pulumi.Resource, error) and the older one that returns error
AppVariants == { "resource", "error" }

\* zero value and one set value of ArgocdApplicationSyncPolicy (Automated,
\* Retry.Limit and SyncOptions stand for the struct)
ZeroSyncPolicy ==
    [Automated   |-> [Prune |-> FALSE, SelfHeal |-> FALSE, AllowEmpty |-> FALSE],
     RetryLimit  |-> << >>,
     SyncOptions |-> << >>]
AutoSyncPolicy ==
    [Automated   |-> [Prune |-> TRUE, SelfHeal |-> TRUE, AllowEmpty |-> FALSE],
     RetryLimit  |-> << "5" >>,
     SyncOptions |-> << << "CreateNamespace=true" >> >>]

\* PlatformApplicationConfig as cfg.RequireObject("platform-application") fills it
PlatformApplicationConfigs ==
    [Enabled        : BOOLEAN,
     TargetRevision : {Empty, << "1.2.3" >>},
     SyncPolicy     : {ZeroSyncPolicy, AutoSyncPolicy},
     Values         : {Empty, << "replicas: 3" >>}]

\* A YAML document is a function from the key paths it holds to their values.
BaseDocument ==
    ("apiVersion" :> << "argoproj.io/v1alpha1" >>)
    @@ ("kind" :> << "Application" >>)
    @@ ("metadata.name" :> << "cluster-services" >>)
    @@ ("metadata.namespace" :> << "argocd" >>)
    @@ ("spec.project" :> << "default" >>)
    @@ ("spec.source.repoURL" :> << "https://charts.example" >>)
    @@ ("spec.source.chart" :> << "platform-services" >>)
    @@ ("spec.destination.server" :> << "https://kubernetes.default.svc" >>)
    @@ ("spec.destination.namespace" :> << "cluster-services" >>)

\* templates.PlatformApplicationBytes: the base document, alone or with helm
\* values, a target revision and a sync policy of its own, or bytes that are
\* not an Application document
TemplateDocuments ==
    { [valid |-> TRUE, doc |-> BaseDocument],
      [valid |-> TRUE,
       doc   |-> ("spec.source.helm.values" :> << "replicas: 1" >>)
                 @@ ("spec.source.helm.releaseName" :> << "platform" >>)
                 @@ ("spec.source.targetRevision" :> << "0.9.0" >>)
                 @@ BaseDocument],
      [valid |-> TRUE,
       doc   |-> ("spec.source.helm.values" :> << "replicas: 1" >>)
                 @@ ("spec.source.path" :> << "chart" >>)
                 @@ ("spec.syncPolicy" :> AutoSyncPolicy)
                 @@ ("spec.ignoreDifferences" :> << << "apps", "/", "Deployment" >> >>)
                 @@ BaseDocument],
      [valid |-> FALSE, doc |-> ("kind" :> << "{" >>)] }

ErrUnmarshal == [kind |-> "yaml", msg |-> << "cannot unmarshal" >>]

\* the value of a key path of the document, the zero value of the field
\* when the document does not hold it
FieldOf(doc, key, zero) == IF key \in DOMAIN doc THEN doc[key] ELSE zero

MetadataKeys == { "metadata.name", "metadata.namespace" }

\* NewApplicationFromBytes: the document decoded into ArgocdApplication
NewApplicationFromBytes(bytes) ==
    IF ~bytes.valid
    THEN [application |-> << >>, err |-> ErrUnmarshal]
    ELSE LET d == bytes.doc
         IN  [application |-> <<
                [ApiVersion |-> FieldOf(d, "apiVersion", Empty),
                 Kind       |-> FieldOf(d, "kind", Empty),
                 Metadata   |-> [k \in MetadataKeys \cap DOMAIN d |-> d[k]],
                 Spec |->
                   [Source |->
                      [RepoUrl        |-> FieldOf(d, "spec.source.repoURL", Empty),
                       Path           |-> FieldOf(d, "spec.source.path", Empty),
                       TargetRevision |-> FieldOf(d, "spec.source.targetRevision", Empty),
                       Helm |->
                         [ReleaseName |-> FieldOf(d, "spec.source.helm.releaseName", Empty),
                          Values      |-> FieldOf(d, "spec.source.helm.values", Empty),
                          Version     |-> FieldOf(d, "spec.source.helm.version", Empty)],
                       Chart          |-> FieldOf(d, "spec.source.chart", Empty)],
                    Destination |->
                      [Server    |-> FieldOf(d, "spec.destination.server", Empty),
                       Namespace |-> FieldOf(d, "spec.destination.namespace", Empty),
                       Name      |-> FieldOf(d, "spec.destination.name", Empty)],
                    Project           |-> FieldOf(d, "spec.project", Empty),
                    SyncPolicy        |-> FieldOf(d, "spec.syncPolicy", ZeroSyncPolicy),
                    IgnoreDifferences |-> FieldOf(d, "spec.ignoreDifferences", << >>)]] >>,
              err |-> Nil]

\* a variant that builds the helm source anew from the override
SetFromStackConfig_NewHelm(app, cfg) ==
    [app EXCEPT !.Spec.SyncPolicy = cfg.SyncPolicy,
                !.Spec.Source.TargetRevision = cfg.TargetRevision,
                !.Spec.Source.Helm = [ReleaseName |-> Empty, Values |-> cfg.Values,
                                      Version |-> Empty]]

\* "set variables from stack config": the three assignments
SetFromStackConfig(app, cfg) ==
    [app EXCEPT !.Spec.SyncPolicy = cfg.SyncPolicy,
                !.Spec.Source.TargetRevision = cfg.TargetRevision,
                !.Spec.Source.Helm.Values = cfg.Values]

\* one key of the document yaml.Marshal writes: fields tagged omitempty are
\* left out when they hold their zero value
KeyOf(key, value, zero, omitempty) ==
    IF omitempty /\ value = zero THEN << >> ELSE (key :> value)

\* yaml.Marshal(application)
MarshalApplication(a) ==
    KeyOf("apiVersion", a.ApiVersion, Empty, FALSE)
    @@ KeyOf("kind", a.Kind, Empty, FALSE)
    @@ a.Metadata
    @@ KeyOf("spec.source.repoURL", a.Spec.Source.RepoUrl, Empty, FALSE)
    @@ KeyOf("spec.source.path", a.Spec.Source.Path, Empty, TRUE)
    @@ KeyOf("spec.source.targetRevision", a.Spec.Source.TargetRevision, Empty, TRUE)
    @@ KeyOf("spec.source.helm.releaseName", a.Spec.Source.Helm.ReleaseName, Empty, TRUE)
    @@ KeyOf("spec.source.helm.values", a.Spec.Source.Helm.Values, Empty, TRUE)
    @@ KeyOf("spec.source.helm.version", a.Spec.Source.Helm.Version, Empty, TRUE)
    @@ KeyOf("spec.source.chart", a.Spec.Source.Chart, Empty, TRUE)
    @@ KeyOf("spec.destination.server", a.Spec.Destination.Server, Empty, TRUE)
    @@ KeyOf("spec.destination.namespace", a.Spec.Destination.Namespace, Empty, TRUE)
    @@ KeyOf("spec.destination.name", a.Spec.Destination.Name, Empty, TRUE)
    @@ KeyOf("spec.project", a.Spec.Project, Empty, FALSE)
    @@ KeyOf("spec.syncPolicy", a.Spec.SyncPolicy, ZeroSyncPolicy, TRUE)
    @@ KeyOf("spec.ignoreDifferences", a.Spec.IgnoreDifferences, << >>, TRUE)

ClusterServicesName == << "cluster-services" >>

\* what SyncArgocdApplication, that is SyncKubernetesManifest, may return
SyncErrors == {Nil} \cup IoErrors \cup ProviderErrors

\* the older deployPlatformApplicationManifest logs the error of the sync
\* and returns nil; the newer one returns it
AppReturn(v, e) == IF v = "error" THEN Nil ELSE e

\* cfg.RequireObject, the Enabled test and NewApplicationFromBytes
LoadTemplate ==
    /\ appPc = "start"
    /\ UNCHANGED <<appVariant, appCfg, template, synced>>
    /\ IF ~appCfg.Enabled
       THEN /\ appPc' = "done"
            /\ appRet' = << Nil >>
            /\ UNCHANGED application
       ELSE LET r == NewApplicationFromBytes(template)
            IN  IF r.err # Nil
                THEN /\ appPc' = "done"
                     /\ appRet' = << r.err >>
                     /\ UNCHANGED application
                ELSE /\ application' = r.application
                     /\ appPc' = "override"
                     /\ UNCHANGED appRet

\* the three assignments from the stack configuration
Materialize ==
    /\ appPc = "override"
    /\ UNCHANGED <<appVariant, appCfg, template, synced, appRet>>
    /\ application' = << SetFromStackConfig(application[1], appCfg) >>
    /\ appPc' = "sync"

\* SyncArgocdApplication(ctx, "cluster-services", application, ...) and the return
SyncApplication ==
    /\ appPc = "sync"
    /\ UNCHANGED <<appVariant, appCfg, template, application>>
    /\ \E e \in SyncErrors :
          /\ synced' = << [name |-> ClusterServicesName,
                           manifest |-> MarshalApplication(application[1]),
                           err |-> e] >>
          /\ appRet' = << AppReturn(appVariant, e) >>
          /\ appPc' = "done"

----------------------------------------------------------------------------
(* main: the run function handed to pulumi.Run, with the named result err  *)
(* and the deferred function that recovers a panic of the body             *)

\* the values a body can leave in err
BodyErrors == {Nil, ErrNoClusterName, ErrNoNodeRole} \cup ProviderErrors \cup IoErrors

\* the values a body can panic with: a string, an error, a runtime error
\* (the index out of range of discoverNodeIAMRole), and nil
PanicValues ==
    { [type |-> "string", val |-> << "boom" >>],
      [type |-> "error", val |-> << "AccessDenied" >>],
      [type |-> "runtime.Error", val |-> << "index out of range [0] with length 0" >>],
      [type |-> "nil", val |-> << >>] }

\* how a body ends: the value of err at that point and, if it panics, with what
BodyOutcomes == [err : BodyErrors, panic : {<< >>} \cup {<< v >> : v \in PanicValues}]

\* recover() in the deferred function: nil when nothing panics; the value of
\* the panic; for panic(nil), nil or a *runtime.PanicNilError, depending on
\* the Go release the program is built with
RecoverResults(p) ==
    IF p = << >> THEN { << >> }
    ELSE IF p[1].type = "nil"
    THEN { << >>, << [type |-> "runtime.Error", val |-> << "panic called with nil argument" >>] >> }
    ELSE { p }

\* errorutils.RecoverErr(recovered): nil for nil, an error for a value
RecoverErr(recovered) ==
    IF recovered = << >> THEN Nil
    ELSE [kind |-> "panic", msg |-> recovered[1].val]

\* a variant in which the error of the panic always wins
ErrAfterRecover_PanicWins(e, recoveredErr) ==
    IF recoveredErr # Nil THEN recoveredErr ELSE e

\* if err == nil && recoveredErr != nil { err = recoveredErr }
ErrAfterRecover(e, recoveredErr) ==
    IF e = Nil /\ recoveredErr # Nil THEN recoveredErr ELSE e

\* the body of the run function: it leaves a value in err and returns or panics
RunBody ==
    /\ mainPc = "start"
    /\ mainErr' = body.err
    /\ panicking' = body.panic
    /\ mainPc' = "deferred"
    /\ UNCHANGED <<body, mainLog, mainRet>>

\* the deferred function: recover, log, keep err or take the panic's error
RecoverPanic ==
    /\ mainPc = "deferred"
    /\ \E recovered \in RecoverResults(panicking) :
          LET recoveredErr == RecoverErr(recovered)
          IN  /\ mainLog' = IF recoveredErr # Nil
                            THEN Append(mainLog, << "pulumi panicked", recoveredErr >>)
                            ELSE mainLog
              /\ mainErr' = ErrAfterRecover(mainErr, recoveredErr)
    /\ panicking' = << >>
    /\ mainPc' = "return"
    /\ UNCHANGED <<body, mainRet>>

\* the run function returns the named result to pulumi.Run
ReturnRun ==
    /\ mainPc = "return"
    /\ mainRet' = << mainErr >>
    /\ mainPc' = "done"
    /\ UNCHANGED <<body, mainErr, panicking, mainLog>>

----------------------------------------------------------------------------
(* CreateVpcInfrastructure: the VPC, the internet gateway and, for every    *)
(* availability zone in order, the public subnet with its routing, the NAT  *)
(* gateway, the private subnet with its routing                             *)

StackName == << "dev" >>

\* AvailabilityZoneInput
AvailabilityZoneInputs ==
    { [AzName |-> << "us-east-1a" >>, PublicSubnetCidr |-> << "10.0.0.0/24" >>,
       PrivateSubnetCidr |-> << "10.0.1.0/24" >>],
      [AzName |-> << "us-east-1b" >>, PublicSubnetCidr |-> << "10.0.2.0/24" >>,
       PrivateSubnetCidr |-> << "10.0.3.0/24" >>] }

\* VpcConfigInput
VpcConfigInputs ==
    [Cidr : {<< "10.0.0.0/16" >>},
     AvailabilityZones : SeqsUpTo(AvailabilityZoneInputs, MaxAz)]

DefaultCidr == << "0.0.0.0/0" >>

\* fmt.Sprintf("%s-<kind>-%d", name, i) and fmt.Sprintf("%s-<kind>", name)
IndexedName(name, kind, i) == name \o << kind >> \o Itoa(i)
PlainName(name, kind)      == name \o << kind >>

\* the ID output of a registered resource
IdOf(r) == << r.type >> \o r.name

VpcResource(name, cidr) ==
    [type |-> "ec2.Vpc", name |-> PlainName(name, "-vpc"),
     args |-> [CidrBlock |-> cidr, Tags |-> [Name |-> name]]]

InternetGatewayResource(name, vpcId) ==
    [type |-> "ec2.InternetGateway", name |-> PlainName(name, "-internet-gateway"),
     args |-> [VpcId |-> vpcId]]

PublicSubnetResource(name, i, az, vpcId) ==
    [type |-> "ec2.Subnet", name |-> IndexedName(name, "-public-subnet-", i),
     args |-> [VpcId |-> vpcId, CidrBlock |-> az.PublicSubnetCidr,
               AvailabilityZone |-> az.AzName,
               Tags |-> << << << "kubernetes.io/cluster/" >> \o name, << "owned" >> >>,
                           << << "kubernetes.io/role/elb" >>, << "1" >> >> >>]]

RouteTableResource(name, kind, i, vpcId) ==
    [type |-> "ec2.RouteTable", name |-> IndexedName(name, kind, i),
     args |-> [VpcId |-> vpcId]]

PublicRouteResource(name, i, routeTableId, internetGatewayId) ==
    [type |-> "ec2.Route", name |-> IndexedName(name, "-public-route-", i),
     args |-> [RouteTableId |-> routeTableId, DestinationCidrBlock |-> DefaultCidr,
               GatewayId |-> internetGatewayId, NatGatewayId |-> Empty]]

AssociationResource(name, kind, i, subnetId, routeTableId) ==
    [type |-> "ec2.RouteTableAssociation", name |-> IndexedName(name, kind, i),
     args |-> [SubnetId |-> subnetId, RouteTableId |-> routeTableId]]

EipResource(name, i) ==
    [type |-> "ec2.Eip", name |-> IndexedName(name, "-elastic-ip-", i),
     args |-> [Vpc |-> TRUE]]

NatGatewayResource(name, i, allocationId, subnetId) ==
    [type |-> "ec2.NatGateway", name |-> IndexedName(name, "-nat-gateway-", i),
     args |-> [AllocationId |-> allocationId, SubnetId |-> subnetId]]

PrivateSubnetResource(name, i, az, vpcId) ==
    [type |-> "ec2.Subnet", name |-> IndexedName(name, "-private-subnet-", i),
     args |-> [VpcId |-> vpcId, CidrBlock |-> az.PrivateSubnetCidr,
               AvailabilityZone |-> az.AzName,
               Tags |-> << << << "kubernetes.io/cluster/cluster-name" >>, name >> >>]]

\* a variant in which every private route goes through the NAT gateway of
\* the first zone
PrivateRouteResource_FirstNat(name, i, routeTableId, natGatewayId) ==
    [type |-> "ec2.Route", name |-> IndexedName(name, "-private-route-", i),
     args |-> [RouteTableId |-> routeTableId, DestinationCidrBlock |-> DefaultCidr,
               GatewayId |-> Empty,
               NatGatewayId |-> IdOf(NatGatewayResource(name, 0, Empty, Empty))]]

PrivateRouteResource(name, i, routeTableId, natGatewayId) ==
    [type |-> "ec2.Route", name |-> IndexedName(name, "-private-route-", i),
     args |-> [RouteTableId |-> routeTableId, DestinationCidrBlock |-> DefaultCidr,
               GatewayId |-> Empty, NatGatewayId |-> natGatewayId]]

\* a variant of the loop that leaves out the last zone
LoopContinues_SkipsLast(i, n) == i + 1 < n

\* for i, az := range vpcConfig.AvailabilityZones
LoopContinues(i, n) == i < n

\* the zone of the running iteration
CurrentAz == vpcConfig.AvailabilityZones[azIdx + 1]

\* return nil, err
FailVpc(e) ==
    /\ vpcRet' = << [output |-> << >>, err |-> e] >>
    /\ vpcPc' = "done"

\* position after the internet gateway and after each iteration
AfterIteration(i) ==
    IF LoopContinues(i, Len(vpcConfig.AvailabilityZones)) THEN "publicSubnet" ELSE "return"

\* the registrations of b, in order, up to the first that fails: the first k
\* are registered, and when k < Len(b) the next one returned an error
RegisteredPrefix(b, k) == vpcResources \o SubSeq(b, 1, k)

CreateVpc ==
    /\ vpcPc = "vpc"
    /\ UNCHANGED <<vpcConfig, azIdx>>
    /\ LET vpc == VpcResource(StackName, vpcConfig.Cidr)
       IN  \E e \in {Nil} \cup ProviderErrors :
              IF e # Nil
              THEN FailVpc(e) /\ UNCHANGED <<vpcResources, output, vpcLocals>>
              ELSE /\ vpcResources' = Append(vpcResources, vpc)
                   /\ output' = [output EXCEPT !.VpcID = IdOf(vpc)]
                   /\ vpcLocals' = [vpcLocals EXCEPT !.vpc = IdOf(vpc)]
                   /\ vpcPc' = "igw"
                   /\ UNCHANGED vpcRet

CreateInternetGateway ==
    /\ vpcPc = "igw"
    /\ UNCHANGED <<vpcConfig, azIdx, output>>
    /\ LET igw == InternetGatewayResource(StackName, vpcLocals.vpc)
       IN  \E e \in {Nil} \cup ProviderErrors :
              IF e # Nil
              THEN FailVpc(e) /\ UNCHANGED <<vpcResources, vpcLocals>>
              ELSE /\ vpcResources' = Append(vpcResources, igw)
                   /\ vpcLocals' = [vpcLocals EXCEPT !.internetGateway = IdOf(igw)]
                   /\ vpcPc' = AfterIteration(azIdx)
                   /\ UNCHANGED vpcRet

CreatePublicSubnet ==
    /\ vpcPc = "publicSubnet"
    /\ UNCHANGED <<vpcConfig, azIdx>>
    /\ LET subnet == PublicSubnetResource(StackName, azIdx, CurrentAz, vpcLocals.vpc)
       IN  \E e \in {Nil} \cup ProviderErrors :
              IF e # Nil
              THEN FailVpc(e) /\ UNCHANGED <<vpcResources, output, vpcLocals>>
              ELSE /\ vpcResources' = Append(vpcResources, subnet)
                   /\ output' = [output EXCEPT
                                   !.PublicSubnetIDs = Append(@, IdOf(subnet))]
                   /\ vpcLocals' = [vpcLocals EXCEPT !.publicSubnet = IdOf(subnet)]
                   /\ vpcPc' = "publicRouting"
                   /\ UNCHANGED vpcRet

\* the public route table, its default route and its association
CreatePublicRouting ==
    /\ vpcPc = "publicRouting"
    /\ UNCHANGED <<vpcConfig, azIdx, output>>
    /\ LET table == RouteTableResource(StackName, "-public-route-table-", azIdx,
                                       vpcLocals.vpc)
           b == << table,
                   PublicRouteResource(StackName, azIdx, IdOf(table),
                                       vpcLocals.internetGateway),
                   AssociationResource(StackName, "-public-route-table-association-",
                                       azIdx, vpcLocals.publicSubnet, IdOf(table)) >>
       IN  \E k \in 0..Len(b) :
              /\ vpcResources' = RegisteredPrefix(b, k)
              /\ vpcLocals' = IF k >= 1
                              THEN [vpcLocals EXCEPT !.publicRouteTable = IdOf(table)]
                              ELSE vpcLocals
              /\ IF k < Len(b)
                 THEN \E e \in ProviderErrors : FailVpc(e)
                 ELSE vpcPc' = "nat" /\ UNCHANGED vpcRet

\* the elastic IP and the NAT gateway in the public subnet
CreateNatGateway ==
    /\ vpcPc = "nat"
    /\ UNCHANGED <<vpcConfig, azIdx>>
    /\ LET eip == EipResource(StackName, azIdx)
           nat == NatGatewayResource(StackName, azIdx, IdOf(eip), vpcLocals.publicSubnet)
           b   == << eip, nat >>
       IN  \E k \in 0..Len(b) :
              /\ vpcResources' = RegisteredPrefix(b, k)
              /\ output' = IF k >= 1
                           THEN [output EXCEPT !.NatGatewayIPs = Append(@, IdOf(eip))]
                           ELSE output
              /\ vpcLocals' = IF k = 0 THEN vpcLocals
                              ELSE IF k = 1
                              THEN [vpcLocals EXCEPT !.natGatewayIp = IdOf(eip)]
                              ELSE [vpcLocals EXCEPT !.natGatewayIp = IdOf(eip),
                                                     !.natGateway = IdOf(nat)]
              /\ IF k < Len(b)
                 THEN \E e \in ProviderErrors : FailVpc(e)
                 ELSE vpcPc' = "privateSubnet" /\ UNCHANGED vpcRet

CreatePrivateSubnet ==
    /\ vpcPc = "privateSubnet"
    /\ UNCHANGED <<vpcConfig, azIdx>>
    /\ LET subnet == PrivateSubnetResource(StackName, azIdx, CurrentAz, vpcLocals.vpc)
       IN  \E e \in {Nil} \cup ProviderErrors :
              IF e # Nil
              THEN FailVpc(e) /\ UNCHANGED <<vpcResources, output, vpcLocals>>
              ELSE /\ vpcResources' = Append(vpcResources, subnet)
                   /\ output' = [output EXCEPT
                                   !.PrivateSubnetIDs = Append(@, IdOf(subnet))]
                   /\ vpcLocals' = [vpcLocals EXCEPT !.privateSubnet = IdOf(subnet)]
                   /\ vpcPc' = "privateRouting"
                   /\ UNCHANGED vpcRet

\* the private route table, its default route and its association; then the
\* next zone
CreatePrivateRouting ==
    /\ vpcPc = "privateRouting"
    /\ UNCHANGED <<vpcConfig, output>>
    /\ LET table == RouteTableResource(StackName, "-private-route-table-", azIdx,
                                       vpcLocals.vpc)
           b == << table,
                   PrivateRouteResource(StackName, azIdx, IdOf(table),
                                        vpcLocals.natGateway),
                   AssociationResource(StackName, "-private-route-table-association-",
                                       azIdx, vpcLocals.privateSubnet, IdOf(table)) >>
       IN  \E k \in 0..Len(b) :
              /\ vpcResources' = RegisteredPrefix(b, k)
              /\ vpcLocals' = IF k >= 1
                              THEN [vpcLocals EXCEPT !.privateRouteTable = IdOf(table)]
                              ELSE vpcLocals
              /\ IF k < Len(b)
                 THEN (\E e \in ProviderErrors : FailVpc(e)) /\ UNCHANGED azIdx
                 ELSE /\ azIdx' = azIdx + 1
                      /\ vpcPc' = AfterIteration(azIdx + 1)
                      /\ UNCHANGED vpcRet

\* return &output, nil
ReturnOutput ==
    /\ vpcPc = "return"
    /\ vpcRet' = << [output |-> << output >>, err |-> Nil] >>
    /\ vpcPc' = "done"
    /\ UNCHANGED <<vpcConfig, azIdx, vpcResources, output, vpcLocals>>

----------------------------------------------------------------------------
(* applyKubernetesManifest, the kubectl shim: the scratch file, the         *)
(* command registered with the engine, and the engine's run of it           *)

EngineModes == { "update", "preview" }

\* the Create command runs when the resource is new or its trigger changed,
\* and only in an update
CommandRuns(mode, prior, cmd) == mode = "update" /\ prior # cmd.args.Triggers

\* os.WriteFile in applyKubernetesManifest; a failure returns the error
ShimWrite ==
    /\ shimPc = "start"
    /\ UNCHANGED <<shimInput, shimMode, shimPrior, shimCmd, kubectlLog>>
    /\ \E e \in {Nil} \cup IoErrors :
          IF e # Nil
          THEN /\ shimRet' = << e >>
               /\ shimPc' = "finished"
               /\ UNCHANGED shimFiles
          ELSE /\ shimFiles' = WriteFile(shimFiles, TempFileName(shimInput.name),
                                         shimInput.manifest)
               /\ shimPc' = "register"
               /\ UNCHANGED shimRet

\* local.NewCommand and the return of its error
ShimRegister ==
    /\ shimPc = "register"
    /\ UNCHANGED <<shimInput, shimMode, shimPrior, shimFiles, kubectlLog>>
    /\ \E e \in {Nil} \cup ProviderErrors :
          /\ shimRet' = << e >>
          /\ IF e # Nil
             THEN shimPc' = "finished" /\ UNCHANGED shimCmd
             ELSE /\ shimCmd' = << CommandResource(shimInput.name, shimInput.manifest) >>
                  /\ shimPc' = "engine"

\* the engine runs "kubectl apply -f <file>; rm <file>": rm runs whatever
\* kubectl apply gave
EngineRunsCommand ==
    /\ shimPc = "engine"
    /\ CommandRuns(shimMode, shimPrior, shimCmd[1])
    /\ UNCHANGED <<shimInput, shimMode, shimCmd, shimRet>>
    /\ LET path  == TempFileName(shimInput.name)
           found == FileAt(shimFiles, path)
       IN  \E ok \in (IF found = {} THEN {FALSE} ELSE BOOLEAN) :
              /\ kubectlLog' = Append(kubectlLog,
                                      IF ok
                                      THEN << "applied", (CHOOSE f \in found : TRUE).content >>
                                      ELSE << "failed", << >> >>)
              /\ shimFiles' = RemoveFile(shimFiles, path)
              /\ shimPrior' = IF ok THEN shimCmd[1].args.Triggers ELSE shimPrior
    /\ shimPc' = "finished"

\* the engine does not run the command: a preview, or an update in which
\* the trigger is the one the state holds
EngineSkipsCommand ==
    /\ shimPc = "engine"
    /\ ~CommandRuns(shimMode, shimPrior, shimCmd[1])
    /\ shimPc' = "finished"
    /\ UNCHANGED <<shimInput, shimMode, shimPrior, shimFiles, shimCmd, shimRet, kubectlLog>>

----------------------------------------------------------------------------
(* ReplaceSecretsFromPulumi: each key is looked up with RequireSecret, and  *)
(* the lookup waits on a sync.WaitGroup for the ApplyT callback             *)

\* the keys as the template holds them, between "<<" and ">>"
TemplateKeys == { << "<<", "db-password", ">>" >>, << "<<", "api-token", ">>" >> }

\* strings.ReplaceAll(key, "<<", "") and strings.ReplaceAll(key, ">>", "")
StripKey(key) == SelectSeq(key, LAMBDA t : t \notin {"<<", ">>"})

\* the secrets of the stack configuration
SecretStore ==
    (<< "db-password" >> :> << "hunter2" >>) @@ (<< "api-token" >> :> << "tok-123" >>)

\* a variant of the callback without wg.Done()
AfterDone_Missing(n) == n

\* wg.Done()
AfterDone(n) == n - 1

\* wg.Add(1), the key stripped, conf.RequireSecret(key).ApplyT(callback)
LookupStart ==
    /\ secPc = "start"
    /\ secIdx <= Len(secKeys)
    /\ wg' = wg + 1
    /\ callback' = "pending"
    /\ secPc' = "registered"
    /\ UNCHANGED <<secKeys, deferredAt, secIdx, secretValue, received, secRets>>

\* the engine resolves the output and runs the callback: secretValue = value,
\* and the deferred wg.Done()
CallbackRuns ==
    /\ callback = "pending"
    /\ deferredAt # secIdx
    /\ LET value == SecretStore[StripKey(secKeys[secIdx])]
       IN  /\ secretValue' = value
           /\ received' = << value >>
    /\ wg' = AfterDone(wg)
    /\ callback' = "invoked"
    /\ UNCHANGED <<secKeys, deferredAt, secIdx, secPc, secRets>>

\* the lookup reaches wg.Wait()
WaitBegins ==
    /\ secPc = "registered"
    /\ secPc' = "waiting"
    /\ UNCHANGED <<secKeys, deferredAt, secIdx, wg, callback, secretValue, received, secRets>>

\* wg.Wait() returns when the counter is zero; return secretValue, nil; the
\* next key, if any, starts with a new WaitGroup and a new secretValue
WaitReturns ==
    /\ secPc = "waiting"
    /\ wg = 0
    /\ secRets' = Append(secRets, [value |-> secretValue, err |-> Nil, received |-> received])
    /\ secIdx' = secIdx + 1
    /\ secPc' = IF secIdx + 1 <= Len(secKeys) THEN "start" ELSE "returned"
    /\ callback' = "none"
    /\ secretValue' = Empty
    /\ received' = << >>
    /\ UNCHANGED <<secKeys, deferredAt, wg>>

----------------------------------------------------------------------------
(* BootstrapCluster: the registrations, their depends-on lists, and the     *)
(* engine applying the registered resources                                 *)

BootstrapVariants == {"bootstrap.go", "part_002"}

\* the Pulumi resource names of the registrations
RemoteWriteSecretName == "prometheus-remote-write-basic-auth-secret"
KubePrometheusStackName == "kube-prometheus-stack"
ArgocdName == "argo-cd"
PlatformApplicationName == "cluster-services"
CertManagerSecretName == "cert-manager-cloudflare-api-token-secret"

\* a nil pulumi.Resource
NilResource == "<nil>"

BootstrapConfigs ==
    [ManageEksAuthConfigMap : BOOLEAN,
     ManagePrometheusRemoteWriteBasicAuthSecret : BOOLEAN,
     PlatformApplicationEnabled : BOOLEAN]

NoBootstrapLocals ==
    [prometheusRemoteWriteSecret |-> NilResource, prometheus |-> NilResource,
     argocd |-> NilResource, platformApplication |-> NilResource]

ErrBootstrap(what) == [kind |-> "bootstrap", msg |-> << what >>]

\* what the SDK does with a nil resource in a depends-on list: the
\* registration dereferences it and panics, or skips it
NilDependencyOutcomes == {"panic", "skipped"}

Registration(name, deps) == [name |-> name, dependsOn |-> deps]

DependenciesOf(reg) == {reg.dependsOn[i] : i \in 1..Len(reg.dependsOn)}

\* the depends-on list deployKubePrometheusStack is given
PrometheusDependsOn(v, secret) ==
    IF v = "bootstrap.go" /\ secret # NilResource THEN << secret >> ELSE << >>

\* the step after deployArgocd
AfterArgocd(v) == IF v = "bootstrap.go" THEN "application" ELSE "certsecret"

BsReturn(e) == /\ bsPc' = "done"
               /\ bsRet' = << e >>

\* cfg.GetObject("k8s", &k8sConfig)
BsGetConfig ==
    /\ bsPc = "start"
    /\ \E e \in {Nil, ErrBootstrap("config")} :
          IF e # Nil THEN BsReturn(e)
          ELSE /\ bsPc' = "auth"
               /\ bsRet' = bsRet
    /\ UNCHANGED <<bsVariant, bsConfig, bsLocals, bsRegistered, bsApplied>>

\* the aws-auth configmap, when managed; the older variant has no
\* remote-write secret
BsSyncAuth ==
    /\ bsPc = "auth"
    /\ \E e \in {Nil} \cup (IF bsConfig.ManageEksAuthConfigMap THEN {ErrBootstrap("eks-auth")} ELSE {}) :
          IF e # Nil THEN BsReturn(e)
          ELSE /\ bsPc' = IF bsVariant = "bootstrap.go" THEN "secret" ELSE "prometheus"
               /\ bsRet' = bsRet
    /\ UNCHANGED <<bsVariant, bsConfig, bsLocals, bsRegistered, bsApplied>>

\* deployPrometheusRemoteWriteBasicAuthSecret: nil, nil when not managed
BsDeploySecret ==
    /\ bsPc = "secret"
    /\ IF bsConfig.ManagePrometheusRemoteWriteBasicAuthSecret
       THEN \E e \in {Nil, ErrBootstrap(RemoteWriteSecretName)} :
               IF e # Nil
               THEN /\ BsReturn(e)
                    /\ UNCHANGED <<bsLocals, bsRegistered>>
               ELSE /\ bsRegistered' = Append(bsRegistered, Registration(RemoteWriteSecretName, << >>))
                    /\ bsLocals' = [bsLocals EXCEPT !.prometheusRemoteWriteSecret = RemoteWriteSecretName]
                    /\ bsPc' = "prometheus"
                    /\ bsRet' = bsRet
       ELSE /\ bsPc' = "prometheus"
            /\ UNCHANGED <<bsLocals, bsRegistered, bsRet>>
    /\ UNCHANGED <<bsVariant, bsConfig, bsApplied>>

\* deployKubePrometheusStack
BsDeployPrometheus ==
    /\ bsPc = "prometheus"
    /\ \E e \in {Nil, ErrBootstrap(KubePrometheusStackName)} :
          IF e # Nil
          THEN /\ BsReturn(e)
               /\ UNCHANGED <<bsLocals, bsRegistered>>
          ELSE /\ bsRegistered' = Append(bsRegistered,
                      Registration(KubePrometheusStackName,
                                   PrometheusDependsOn(bsVariant, bsLocals.prometheusRemoteWriteSecret)))
               /\ bsLocals' = [bsLocals EXCEPT !.prometheus = KubePrometheusStackName]
               /\ bsPc' = "argocd"
               /\ bsRet' = bsRet
    /\ UNCHANGED <<bsVariant, bsConfig, bsApplied>>

\* deployArgocd, depending on kube-prometheus-stack
BsDeployArgocd ==
    /\ bsPc = "argocd"
    /\ \E e \in {Nil, ErrBootstrap(ArgocdName)} :
          IF e # Nil
          THEN /\ BsReturn(e)
               /\ UNCHANGED <<bsLocals, bsRegistered>>
          ELSE /\ bsRegistered' = Append(bsRegistered, Registration(ArgocdName, << bsLocals.prometheus >>))
               /\ bsLocals' = [bsLocals EXCEPT !.argocd = ArgocdName]
               /\ bsPc' = AfterArgocd(bsVariant)
               /\ bsRet' = bsRet
    /\ UNCHANGED <<bsVariant, bsConfig, bsApplied>>

\* deployPlatformApplicationManifest of bootstrap.go: registered depending on
\* argo-cd when enabled; nil, nil when not
BsDeployApplication ==
    /\ bsPc = "application"
    /\ bsVariant = "bootstrap.go"
    /\ IF bsConfig.PlatformApplicationEnabled
       THEN \E e \in {Nil, ErrBootstrap(PlatformApplicationName)} :
               IF e # Nil
               THEN /\ BsReturn(e)
                    /\ UNCHANGED <<bsLocals, bsRegistered>>
               ELSE /\ bsRegistered' = Append(bsRegistered, Registration(PlatformApplicationName, << bsLocals.argocd >>))
                    /\ bsLocals' = [bsLocals EXCEPT !.platformApplication = PlatformApplicationName]
                    /\ bsPc' = "certsecret"
                    /\ bsRet' = bsRet
       ELSE /\ bsPc' = "certsecret"
            /\ UNCHANGED <<bsLocals, bsRegistered, bsRet>>
    /\ UNCHANGED <<bsVariant, bsConfig, bsApplied>>

\* deployPlatformApplicationManifest of the older variant: the manifest is
\* applied with kubectl while the program runs, an error of the sync is only
\* logged, and BootstrapCluster returns nil
BsApplyApplication ==
    /\ bsPc = "application"
    /\ bsVariant = "part_002"
    /\ IF bsConfig.PlatformApplicationEnabled
       THEN \E e \in {Nil, ErrBootstrap(PlatformApplicationName)} :
               bsApplied' = IF e = Nil THEN bsApplied \cup {PlatformApplicationName} ELSE bsApplied
       ELSE bsApplied' = bsApplied
    /\ BsReturn(Nil)
    /\ UNCHANGED <<bsVariant, bsConfig, bsLocals, bsRegistered>>

\* deployCertManagerDnsSolverSecret: bootstrap.go passes
\* DependsOn([]pulumi.Resource{platformApplication}), the older variant nothing
BsDeployCertSecret ==
    /\ bsPc = "certsecret"
    /\ LET deps == IF bsVariant = "bootstrap.go" THEN << bsLocals.platformApplication >> ELSE << >>
           reg  == Registration(CertManagerSecretName, deps)
       IN  \E e \in {Nil, ErrBootstrap(CertManagerSecretName)} :
           \E outcome \in NilDependencyOutcomes :
              IF NilResource \in DependenciesOf(reg) /\ outcome = "panic"
              THEN /\ bsPc' = "panic"
                   /\ UNCHANGED <<bsRegistered, bsRet>>
              ELSE IF e # Nil
              THEN /\ BsReturn(e)
                   /\ UNCHANGED bsRegistered
              ELSE /\ bsRegistered' = Append(bsRegistered, reg)
                   /\ IF bsVariant = "bootstrap.go"
                      THEN BsReturn(Nil)
                      ELSE /\ bsPc' = "application"
                           /\ bsRet' = bsRet
    /\ UNCHANGED <<bsVariant, bsConfig, bsLocals, bsApplied>>

\* the engine applies a registered resource once everything it depends on has
\* been applied
EngineApplies ==
    /\ \E i \in 1..Len(bsRegistered) :
          /\ bsRegistered[i].name \notin bsApplied
          /\ DependenciesOf(bsRegistered[i]) \ {NilResource} \subseteq bsApplied
          /\ bsApplied' = bsApplied \cup {bsRegistered[i].name}
    /\ UNCHANGED <<bsVariant, bsConfig, bsPc, bsLocals, bsRegistered, bsRet>>

----------------------------------------------------------------------------
(* CreateEksCluster and createIrsaAssumeRolePolicy                          *)

K8sVersions == { << "1.21" >>, << "1.22" >> }

EksNodeGroupNames == << "workers", "system", "batch" >>

\* the node group lists of the configuration, each a prefix of EksNodeGroupNames
NodeGroupConfigs == { SubSeq(EksNodeGroupNames, 1, n) : n \in 0..MaxNodeGroups }

EksConfigInputs ==
    [K8sVersion : K8sVersions,
     NodeGroupVersion : {Empty} \cup K8sVersions,
     NodeGroupConfig : NodeGroupConfigs,
     ClusterAutoscalerServiceAccount : {Empty, << "autoscaler-sa" >>},
     ClusterAutoscalerNamespace : {Empty, << "kube-system" >>}]

\* "https://", character by character
HttpsScheme == << "h", "t", "t", "p", "s", ":", "/", "/" >>

\* the hosts of the issuer URLs: one as EKS names them, and hosts that begin
\* with characters of "https://"
IssuerHosts ==
    { << "o", "i", "d", "c", ".", "e", "k", "s" >>,
      << "s", "t", "s", ".", "i", "o" >>,
      << "p", "h", "x" >> }

IssuerUrls == { HttpsScheme \o h : h \in IssuerHosts }

\* strings.TrimLeft(s, cutset): the leading characters that are in cutset removed
RECURSIVE TrimLeft(_, _)
TrimLeft(s, cutset) ==
    IF s = << >> \/ Head(s) \notin cutset THEN s ELSE TrimLeft(Tail(s), cutset)

\* the characters of the cutset "https://"
HttpsCutset == { HttpsScheme[i] : i \in 1..Len(HttpsScheme) }

\* strings.TrimPrefix(s, prefix)
TrimPrefix(s, prefix) ==
    IF Len(s) >= Len(prefix) /\ SubSeq(s, 1, Len(prefix)) = prefix
    THEN SubSeq(s, Len(prefix) + 1, Len(s))
    ELSE s

\* the StringEquals condition of the policy createIrsaAssumeRolePolicy builds
IrsaCondition(url, namespace, serviceAccount) ==
    [key   |-> TrimLeft(url, HttpsCutset) \o << ":sub" >>,
     value |-> << "system:serviceaccount:" >> \o namespace \o << ":" >> \o serviceAccount]

\* the version the function leaves in eksConfig.NodeGroupVersion
NodeGroupVersionAfterDefault(c) ==
    IF c.NodeGroupVersion # Empty THEN c.K8sVersion ELSE c.NodeGroupVersion

NoIrsaCondition == [key |-> Empty, value |-> Empty]

\* a registration; version is << >> when the arguments carry no version
EksResource(kind, name, version, condition) ==
    [kind |-> kind, name |-> name, version |-> version, condition |-> condition]

\* the version a registered node group runs: that of its arguments, and the
\* cluster's when the arguments carry none
RunningVersion(res, clusterVersion) ==
    IF res.version = << >> THEN clusterVersion ELSE res.version[1]

ErrEks(what) == [kind |-> "eks", msg |-> << what >>]

\* a registration that fails returns its error, one that succeeds moves on
EksRegister(res, next) ==
    \E e \in {Nil, ErrEks(res.name)} :
        IF e # Nil
        THEN /\ eksPc' = "done"
             /\ eksRet' = << e >>
             /\ eksResources' = eksResources
        ELSE /\ eksPc' = next
             /\ eksRet' = eksRet
             /\ eksResources' = Append(eksResources, res)

\* the node group version and the cluster autoscaler defaults
EksDefaults ==
    /\ eksPc = "start"
    /\ eksConfig' = [eksConfig EXCEPT !.NodeGroupVersion = NodeGroupVersionAfterDefault(eksConfig)]
    /\ eksLocals' =
          [serviceAccount |-> IF eksConfig.ClusterAutoscalerServiceAccount # Empty
                              THEN eksConfig.ClusterAutoscalerServiceAccount
                              ELSE << "cluster-autoscaler" >>,
           namespace |-> IF eksConfig.ClusterAutoscalerNamespace # Empty
                         THEN eksConfig.ClusterAutoscalerNamespace
                         ELSE << "cluster-autoscaler" >>]
    /\ eksPc' = "service-role"
    /\ UNCHANGED <<eksInput, eksIssuer, eksNgIdx, eksResources, eksRet>>

\* the EKS service role with its policy attachments
EksCreateServiceRole ==
    /\ eksPc = "service-role"
    /\ EksRegister(EksResource("role", "eks-iam-role", << >>, NoIrsaCondition), "nodegroup-role")
    /\ UNCHANGED <<eksInput, eksIssuer, eksConfig, eksLocals, eksNgIdx>>

\* the node group role with its policy attachments
EksCreateNodeGroupRole ==
    /\ eksPc = "nodegroup-role"
    /\ EksRegister(EksResource("role", "nodegroup-iam-role", << >>, NoIrsaCondition), "cluster")
    /\ UNCHANGED <<eksInput, eksIssuer, eksConfig, eksLocals, eksNgIdx>>

\* eks.NewCluster with Version: eksConfig.K8sVersion
EksCreateCluster ==
    /\ eksPc = "cluster"
    /\ EksRegister(EksResource("cluster", "eks-cluster", << eksConfig.K8sVersion >>, NoIrsaCondition),
                   IF Len(eksConfig.NodeGroupConfig) >= 1 THEN "nodegroups" ELSE "oidc")
    /\ UNCHANGED <<eksInput, eksIssuer, eksConfig, eksLocals, eksNgIdx>>

\* eks.NewNodeGroup of the loop; its arguments carry no version
EksCreateNodeGroup ==
    /\ eksPc = "nodegroups"
    /\ EksRegister(EksResource("nodegroup", eksConfig.NodeGroupConfig[eksNgIdx], << >>, NoIrsaCondition),
                   IF eksNgIdx < Len(eksConfig.NodeGroupConfig) THEN "nodegroups" ELSE "oidc")
    /\ eksNgIdx' = eksNgIdx + 1
    /\ UNCHANGED <<eksInput, eksIssuer, eksConfig, eksLocals>>

\* iam.NewOpenIdConnectProvider on the issuer of the cluster
EksCreateOidcProvider ==
    /\ eksPc = "oidc"
    /\ EksRegister(EksResource("oidc", "eks-oidc-provider", << >>, NoIrsaCondition), "autoscaler-policy")
    /\ UNCHANGED <<eksInput, eksIssuer, eksConfig, eksLocals, eksNgIdx>>

EksCreateAutoscalerPolicy ==
    /\ eksPc = "autoscaler-policy"
    /\ EksRegister(EksResource("policy", "cluster-autoscaler-policy", << >>, NoIrsaCondition), "autoscaler-role")
    /\ UNCHANGED <<eksInput, eksIssuer, eksConfig, eksLocals, eksNgIdx>>

\* the cluster autoscaler role, with the policy of createIrsaAssumeRolePolicy
\* on the resolved URL of the OIDC provider
EksCreateAutoscalerRole ==
    /\ eksPc = "autoscaler-role"
    /\ EksRegister(EksResource("role", "cluster-autoscaler-role", << >>,
                               IrsaCondition(eksIssuer, eksLocals.namespace, eksLocals.serviceAccount)),
                   "autoscaler-attachment")
    /\ UNCHANGED <<eksInput, eksIssuer, eksConfig, eksLocals, eksNgIdx>>

\* the attachment of the autoscaler policy, and return nil
EksAttachAutoscalerPolicy ==
    /\ eksPc = "autoscaler-attachment"
    /\ \E e \in {Nil, ErrEks("cluster-autoscaler-role-policy-attachment")} :
          /\ eksResources' = IF e = Nil
                             THEN Append(eksResources,
                                         EksResource("attachment", "cluster-autoscaler-role-policy-attachment",
                                                     << >>, NoIrsaCondition))
                             ELSE eksResources
          /\ eksRet' = << e >>
    /\ eksPc' = "done"
    /\ UNCHANGED <<eksInput, eksIssuer, eksConfig, eksLocals, eksNgIdx>>

----------------------------------------------------------------------------
(* discoverSSORole with the provider's search computed from the roles of    *)
(* the account: iam.GetRoles reports the roles under the path prefix whose  *)
(* name the regular expression matches somewhere                            *)

\* permission set names, character by character
SsoPermissionSets ==
    { << "A" >>, << "A", "_", "B" >>, << "A", ".", "B" >>, << "A", "x", "B" >> }

\* the characters of permission set names and of the rest of a role name
RoleNameChars == { "A", "B", "x", "_", "." }

\* the name of the role IAM Identity Center provisions for a permission set:
\* AWSReservedSSO_<permission set>_<suffix>
SsoRoleName(set) == << "AWSReservedSSO_" >> \o set \o << "_", "1a2b" >>

SsoRoleArn(set) == << "arn:aws:iam::1:role" >> \o ssoRolePathPrefix \o SsoRoleName(set)

\* what the expression must find before its final .* : the pieces of the
\* expression with the trailing "_.*" reduced to "_"
RegexLiteral(regex) == SubSeq(regex, 1, Len(regex) - 1) \o << "_" >>

\* one element of the expression against one element of a name: itself, and
\* "." any one character
ElementMatches(p, c) == p = c \/ (p = "." /\ c \in RoleNameChars)

\* the expression is searched for, not anchored: it may match at any offset
RegexMatches(regex, name) ==
    LET lit == RegexLiteral(regex)
    IN  \E k \in 0..(Len(name) - Len(lit)) :
            \A i \in 1..Len(lit) : ElementMatches(lit[i], name[k + i])

\* the roles of the account the search reports
MatchingArns(sets, regex) ==
    { SsoRoleArn(s) : s \in { t \in sets : RegexMatches(regex, SsoRoleName(t)) } }

\* the answers iam.GetRoles may give: an error, or the matching roles in any order
GetRolesAnswers(sets, regex) ==
    [err : ProviderErrors, Arns : {<< >>}]
    \cup [err : {Nil},
          Arns : { s \in SeqsOfLen(MatchingArns(sets, regex), Cardinality(MatchingArns(sets, regex))) :
                     \A i, j \in 1..Len(s) : i # j => s[i] # s[j] }]

SsoLookupConfigs ==
    [Name : SsoPermissionSets, PermissionGroups : {OneGroup}, Username : Usernames]

\* roleArn, err := discoverSSORole(ctx, ssoRoleConfig.Name)
LookupSSORole ==
    /\ lookupPc = "start"
    /\ \E roles \in GetRolesAnswers(provisioned, ssoRoleRegex(lookupConfig.Name)) :
          /\ lookupRoles' = roles
          /\ lookupRet' = discoverSSORole(lookupConfig.Name, roles)
    /\ lookupPc' = "returned"
    /\ UNCHANGED <<provisioned, lookupConfig, lookupBound>>

\* if err != nil { return err }; mapRoles = append(mapRoles, ...)
BindSSORole ==
    /\ lookupPc = "returned"
    /\ IF lookupRet.err # Nil
       THEN /\ lookupPc' = "failed"
            /\ lookupBound' = lookupBound
       ELSE /\ lookupPc' = "bound"
            /\ lookupBound' = Append(lookupBound, SsoBinding(lookupConfig, lookupRet.roleArn))
    /\ UNCHANGED <<provisioned, lookupConfig, lookupRoles, lookupRet>>

----------------------------------------------------------------------------
(* Specifications: each one runs one part of the repository and leaves the *)
(* variables of the other parts at rest                                     *)

InitAuthIdle ==
    /\ variant = "configmap"
    /\ config = [InitialImport |-> TRUE, NodeGroupIamRole |-> Empty,
                 NodeGroupIamRoleAutoDiscover |-> FALSE, EKSClusterName |-> Empty,
                 AutoDiscoverSSORoles |-> << >>, IAMRoles |-> << >>, IAMUsers |-> << >>]
    /\ pc = "idle"
    /\ nodeRoleArn = Empty
    /\ mapRoles = << >>
    /\ mapUsers = << >>
    /\ idx = 1
    /\ data = << >>
    /\ err = Nil
    /\ ssoRet = [roleArn |-> Empty, err |-> Nil]
    /\ calls = << >>
    /\ files = {}
    /\ resources = << >>
    /\ applyRet = << >>

InitArnIdle ==
    /\ arnIn = << >>
    /\ arnOut = << >>
    /\ arnOut2 = << >>
    /\ userOut = << >>

InitManIdle ==
    /\ mvariant = "error"
    /\ mcall = << >>
    /\ tmpFiles = {}
    /\ applied = << >>

InitAppIdle ==
    /\ appVariant = "resource"
    /\ appCfg = [Enabled |-> FALSE, TargetRevision |-> Empty,
                 SyncPolicy |-> ZeroSyncPolicy, Values |-> Empty]
    /\ template = [valid |-> TRUE, doc |-> BaseDocument]
    /\ application = << >>
    /\ appPc = "idle"
    /\ appRet = << >>
    /\ synced = << >>

InitMainIdle ==
    /\ body = [err |-> Nil, panic |-> << >>]
    /\ mainPc = "idle"
    /\ mainErr = Nil
    /\ panicking = << >>
    /\ mainLog = << >>
    /\ mainRet = << >>

\* the locals of CreateVpcInfrastructure and its output before the first step
NoVpcLocals ==
    [vpc |-> Empty, internetGateway |-> Empty, publicSubnet |-> Empty,
     publicRouteTable |-> Empty, natGatewayIp |-> Empty, natGateway |-> Empty,
     privateSubnet |-> Empty, privateRouteTable |-> Empty]
ZeroOutput ==
    [VpcID |-> Empty, PrivateSubnetIDs |-> << >>, PublicSubnetIDs |-> << >>,
     NatGatewayIPs |-> << >>]

InitVpcIdle ==
    /\ vpcConfig = [Cidr |-> Empty, AvailabilityZones |-> << >>]
    /\ vpcPc = "idle"
    /\ azIdx = 0
    /\ vpcLocals = NoVpcLocals
    /\ vpcResources = << >>
    /\ output = ZeroOutput
    /\ vpcRet = << >>

InitShimIdle ==
    /\ shimInput = [name |-> Empty, manifest |-> Empty]
    /\ shimMode = "preview"
    /\ shimPrior = << >>
    /\ shimPc = "idle"
    /\ shimFiles = {}
    /\ shimCmd = << >>
    /\ shimRet = << >>
    /\ kubectlLog = << >>

InitSecIdle ==
    /\ secKeys = << >>
    /\ deferredAt = 0
    /\ secIdx = 1
    /\ secPc = "idle"
    /\ wg = 0
    /\ callback = "none"
    /\ secretValue = Empty
    /\ received = << >>
    /\ secRets = << >>

InitBsIdle ==
    /\ bsVariant = "bootstrap.go"
    /\ bsConfig = [ManageEksAuthConfigMap |-> FALSE,
                   ManagePrometheusRemoteWriteBasicAuthSecret |-> FALSE,
                   PlatformApplicationEnabled |-> FALSE]
    /\ bsPc = "idle"
    /\ bsLocals = NoBootstrapLocals
    /\ bsRegistered = << >>
    /\ bsApplied = {}
    /\ bsRet = << >>

ZeroEksConfig ==
    [K8sVersion |-> Empty, NodeGroupVersion |-> Empty, NodeGroupConfig |-> << >>,
     ClusterAutoscalerServiceAccount |-> Empty, ClusterAutoscalerNamespace |-> Empty]

NoEksLocals == [serviceAccount |-> Empty, namespace |-> Empty]

InitEksIdle ==
    /\ eksInput = ZeroEksConfig
    /\ eksIssuer = Empty
    /\ eksConfig = ZeroEksConfig
    /\ eksLocals = NoEksLocals
    /\ eksPc = "idle"
    /\ eksNgIdx = 1
    /\ eksResources = << >>
    /\ eksRet = << >>

InitSsoIdle ==
    /\ provisioned = {}
    /\ lookupConfig = [Name |-> Empty, PermissionGroups |-> << >>, Username |-> Empty]
    /\ lookupPc = "idle"
    /\ lookupRoles = [err |-> Nil, Arns |-> << >>]
    /\ lookupRet = [roleArn |-> Empty, err |-> Nil]
    /\ lookupBound = << >>

IdleExceptAuth ==
    InitArnIdle /\ InitManIdle /\ InitAppIdle /\ InitMainIdle /\ InitVpcIdle /\
    InitShimIdle /\ InitSecIdle /\ InitBsIdle /\ InitEksIdle /\ InitSsoIdle
IdleExceptArn  ==
    InitAuthIdle /\ InitManIdle /\ InitAppIdle /\ InitMainIdle /\ InitVpcIdle /\
    InitShimIdle /\ InitSecIdle /\ InitBsIdle /\ InitEksIdle /\ InitSsoIdle
IdleExceptMan  ==
    InitAuthIdle /\ InitArnIdle /\ InitAppIdle /\ InitMainIdle /\ InitVpcIdle /\
    InitShimIdle /\ InitSecIdle /\ InitBsIdle /\ InitEksIdle /\ InitSsoIdle
IdleExceptApp  ==
    InitAuthIdle /\ InitArnIdle /\ InitManIdle /\ InitMainIdle /\ InitVpcIdle /\
    InitShimIdle /\ InitSecIdle /\ InitBsIdle /\ InitEksIdle /\ InitSsoIdle
IdleExceptMain ==
    InitAuthIdle /\ InitArnIdle /\ InitManIdle /\ InitAppIdle /\ InitVpcIdle /\
    InitShimIdle /\ InitSecIdle /\ InitBsIdle /\ InitEksIdle /\ InitSsoIdle
IdleExceptVpc  ==
    InitAuthIdle /\ InitArnIdle /\ InitManIdle /\ InitAppIdle /\ InitMainIdle /\
    InitShimIdle /\ InitSecIdle /\ InitBsIdle /\ InitEksIdle /\ InitSsoIdle
IdleExceptShim ==
    InitAuthIdle /\ InitArnIdle /\ InitManIdle /\ InitAppIdle /\ InitMainIdle /\
    InitVpcIdle /\ InitSecIdle /\ InitBsIdle /\ InitEksIdle /\ InitSsoIdle
IdleExceptSec  ==
    InitAuthIdle /\ InitArnIdle /\ InitManIdle /\ InitAppIdle /\ InitMainIdle /\
    InitVpcIdle /\ InitShimIdle /\ InitBsIdle /\ InitEksIdle /\ InitSsoIdle
IdleExceptBs   ==
    InitAuthIdle /\ InitArnIdle /\ InitManIdle /\ InitAppIdle /\ InitMainIdle /\
    InitVpcIdle /\ InitShimIdle /\ InitSecIdle /\ InitEksIdle /\ InitSsoIdle
IdleExceptEks  ==
    InitAuthIdle /\ InitArnIdle /\ InitManIdle /\ InitAppIdle /\ InitMainIdle /\
    InitVpcIdle /\ InitShimIdle /\ InitSecIdle /\ InitBsIdle /\ InitSsoIdle
IdleExceptSso  ==
    InitAuthIdle /\ InitArnIdle /\ InitManIdle /\ InitAppIdle /\ InitMainIdle /\
    InitVpcIdle /\ InitShimIdle /\ InitSecIdle /\ InitBsIdle /\ InitEksIdle

notAuthVars ==
    <<arnVars, manVars, appVars, mainVars, vpcVars, shimVars, secVars, bsVars, eksVars,
    ssoVars>>
notArnVars  ==
    <<authVars, manVars, appVars, mainVars, vpcVars, shimVars, secVars, bsVars, eksVars,
    ssoVars>>
notManVars  ==
    <<authVars, arnVars, appVars, mainVars, vpcVars, shimVars, secVars, bsVars, eksVars,
    ssoVars>>
notAppVars  ==
    <<authVars, arnVars, manVars, mainVars, vpcVars, shimVars, secVars, bsVars, eksVars,
    ssoVars>>
notMainVars ==
    <<authVars, arnVars, manVars, appVars, vpcVars, shimVars, secVars, bsVars, eksVars,
    ssoVars>>
notVpcVars  ==
    <<authVars, arnVars, manVars, appVars, mainVars, shimVars, secVars, bsVars, eksVars,
    ssoVars>>
notShimVars ==
    <<authVars, arnVars, manVars, appVars, mainVars, vpcVars, secVars, bsVars, eksVars,
    ssoVars>>
notSecVars  ==
    <<authVars, arnVars, manVars, appVars, mainVars, vpcVars, shimVars, bsVars, eksVars,
    ssoVars>>
notBsVars   ==
    <<authVars, arnVars, manVars, appVars, mainVars, vpcVars, shimVars, secVars, eksVars,
    ssoVars>>
notEksVars  ==
    <<authVars, arnVars, manVars, appVars, mainVars, vpcVars, shimVars, secVars, bsVars,
    ssoVars>>
notSsoVars  ==
    <<authVars, arnVars, manVars, appVars, mainVars, vpcVars, shimVars, secVars, bsVars,
    eksVars>>

\* the state at the call of SyncAuthConfigMap(ctx, config)
Init ==
    /\ variant \in Variants
    /\ config \in AuthConfigMapInput
    /\ pc = "start"
    /\ nodeRoleArn = Empty
    /\ mapRoles = << >>
    /\ mapUsers = << >>
    /\ idx = 1
    /\ data = << >>
    /\ err = Nil
    /\ ssoRet = [roleArn |-> Empty, err |-> Nil]
    /\ calls = << >>
    /\ files = {}
    /\ resources = << >>
    /\ applyRet = << >>
    /\ IdleExceptAuth

Next ==
    \/ ResolveNodeRole /\ UNCHANGED notAuthVars
    \/ DiscoverSSO /\ UNCHANGED notAuthVars
    \/ RegisterConfigMap /\ UNCHANGED notAuthVars
    \/ WriteManifest /\ UNCHANGED notAuthVars
    \/ RegisterCommand /\ UNCHANGED notAuthVars

Spec == Init /\ [][Next]_vars

InitArn ==
    /\ IdleExceptArn
    /\ arnIn \in SeqsUpTo(Alphabet, MaxLen)
    /\ arnOut = << >>
    /\ arnOut2 = << >>
    /\ userOut = << >>

NextArn ==
    \/ CallRemoveArnPath /\ UNCHANGED notArnVars
    \/ CallRemoveArnPathAgain /\ UNCHANGED notArnVars
    \/ CallArnToUsername /\ UNCHANGED notArnVars

SpecArn == InitArn /\ [][NextArn]_vars

\* /tmp as a call finds it: empty, or with a file a previous run left behind
InitialTmpFiles ==
    {{}} \cup {{[path |-> TempFileName(n), content |-> StaleContent]} : n \in ManifestNames}

\* one call of SyncKubernetesManifest
InitManifest ==
    /\ IdleExceptMan
    /\ mvariant \in ManifestVariants
    /\ mcall \in [{"A"} -> {NewCall(n, m) : n \in ManifestNames, m \in Manifests}]
    /\ tmpFiles \in InitialTmpFiles
    /\ applied = << >>

\* two calls of SyncKubernetesManifest whose steps may interleave
InitManifestPair ==
    /\ IdleExceptMan
    /\ mvariant \in ManifestVariants
    /\ mcall \in [{"A", "B"} -> {NewCall(n, m) : n \in ManifestNames, m \in Manifests}]
    /\ tmpFiles = {}
    /\ applied = << >>

NextManifest ==
    \/ \E c \in DOMAIN mcall : WriteScratch(c) /\ UNCHANGED notManVars
    \/ \E c \in DOMAIN mcall : ApplyManifest(c) /\ UNCHANGED notManVars
    \/ \E c \in DOMAIN mcall : RemoveScratch(c) /\ UNCHANGED notManVars

SpecManifest     == InitManifest /\ [][NextManifest]_vars
SpecManifestPair == InitManifestPair /\ [][NextManifest]_vars

\* one call of deployPlatformApplicationManifest
InitApp ==
    /\ IdleExceptApp
    /\ appVariant \in AppVariants
    /\ appCfg \in PlatformApplicationConfigs
    /\ template \in TemplateDocuments
    /\ application = << >>
    /\ appPc = "start"
    /\ appRet = << >>
    /\ synced = << >>

NextApp ==
    \/ LoadTemplate /\ UNCHANGED notAppVars
    \/ Materialize /\ UNCHANGED notAppVars
    \/ SyncApplication /\ UNCHANGED notAppVars

SpecApp == InitApp /\ [][NextApp]_vars

\* one run of the function handed to pulumi.Run
InitMain ==
    /\ IdleExceptMain
    /\ body \in BodyOutcomes
    /\ mainPc = "start"
    /\ mainErr = Nil
    /\ panicking = << >>
    /\ mainLog = << >>
    /\ mainRet = << >>

NextMain ==
    \/ RunBody /\ UNCHANGED notMainVars
    \/ RecoverPanic /\ UNCHANGED notMainVars
    \/ ReturnRun /\ UNCHANGED notMainVars

SpecMain == InitMain /\ [][NextMain]_vars

\* one call of CreateVpcInfrastructure(ctx, vpcConfig)
InitVpc ==
    /\ IdleExceptVpc
    /\ vpcConfig \in VpcConfigInputs
    /\ vpcPc = "vpc"
    /\ azIdx = 0
    /\ vpcLocals = NoVpcLocals
    /\ vpcResources = << >>
    /\ output = ZeroOutput
    /\ vpcRet = << >>

NextVpc ==
    \/ CreateVpc /\ UNCHANGED notVpcVars
    \/ CreateInternetGateway /\ UNCHANGED notVpcVars
    \/ CreatePublicSubnet /\ UNCHANGED notVpcVars
    \/ CreatePublicRouting /\ UNCHANGED notVpcVars
    \/ CreateNatGateway /\ UNCHANGED notVpcVars
    \/ CreatePrivateSubnet /\ UNCHANGED notVpcVars
    \/ CreatePrivateRouting /\ UNCHANGED notVpcVars
    \/ ReturnOutput /\ UNCHANGED notVpcVars

SpecVpc == InitVpc /\ [][NextVpc]_vars

\* one run of the program that calls applyKubernetesManifest once, in an
\* update or a preview, on a stack that has or has not run the command before
InitShim ==
    /\ IdleExceptShim
    /\ shimInput \in [name : ManifestNames \cup {AuthResourceName}, manifest : Manifests]
    /\ shimMode \in EngineModes
    /\ shimPrior \in {<< >>} \cup {<< m >> : m \in Manifests}
    /\ shimPc = "start"
    /\ shimFiles = {}
    /\ shimCmd = << >>
    /\ shimRet = << >>
    /\ kubectlLog = << >>

NextShim ==
    \/ ShimWrite /\ UNCHANGED notShimVars
    \/ ShimRegister /\ UNCHANGED notShimVars
    \/ EngineRunsCommand /\ UNCHANGED notShimVars
    \/ EngineSkipsCommand /\ UNCHANGED notShimVars

SpecShim == InitShim /\ [][NextShim]_vars

\* ReplaceSecretsFromPulumi on a source with one key or more; the engine
\* resolves every output, or never resolves the one of lookup deferredAt
InitSecrets ==
    /\ IdleExceptSec
    /\ secKeys \in SeqsUpTo(TemplateKeys, MaxKeys) \ {<< >>}
    /\ deferredAt \in 0..Len(secKeys)
    /\ secIdx = 1
    /\ secPc = "start"
    /\ wg = 0
    /\ callback = "none"
    /\ secretValue = Empty
    /\ received = << >>
    /\ secRets = << >>

NextSecrets ==
    \/ LookupStart /\ UNCHANGED notSecVars
    \/ CallbackRuns /\ UNCHANGED notSecVars
    \/ WaitBegins /\ UNCHANGED notSecVars
    \/ WaitReturns /\ UNCHANGED notSecVars

\* the program's own steps are taken when they can be, and the engine runs
\* the callback of an output it resolves
SpecSecrets ==
    /\ InitSecrets
    /\ [][NextSecrets]_vars
    /\ WF_vars(LookupStart /\ UNCHANGED notSecVars)
    /\ WF_vars(WaitBegins /\ UNCHANGED notSecVars)
    /\ WF_vars(WaitReturns /\ UNCHANGED notSecVars)
    /\ WF_vars(CallbackRuns /\ UNCHANGED notSecVars)

\* one run of BootstrapCluster, of either variant, with the engine applying
\* the registered resources in any order its dependency graph allows
InitBootstrap ==
    /\ IdleExceptBs
    /\ bsVariant \in BootstrapVariants
    /\ bsConfig \in BootstrapConfigs
    /\ bsPc = "start"
    /\ bsLocals = NoBootstrapLocals
    /\ bsRegistered = << >>
    /\ bsApplied = {}
    /\ bsRet = << >>

NextBootstrap ==
    \/ BsGetConfig /\ UNCHANGED notBsVars
    \/ BsSyncAuth /\ UNCHANGED notBsVars
    \/ BsDeploySecret /\ UNCHANGED notBsVars
    \/ BsDeployPrometheus /\ UNCHANGED notBsVars
    \/ BsDeployArgocd /\ UNCHANGED notBsVars
    \/ BsDeployApplication /\ UNCHANGED notBsVars
    \/ BsApplyApplication /\ UNCHANGED notBsVars
    \/ BsDeployCertSecret /\ UNCHANGED notBsVars
    \/ EngineApplies /\ UNCHANGED notBsVars

SpecBootstrap == InitBootstrap /\ [][NextBootstrap]_vars

\* one call of CreateEksCluster
InitEks ==
    /\ IdleExceptEks
    /\ eksInput \in EksConfigInputs
    /\ eksIssuer \in IssuerUrls
    /\ eksConfig = eksInput
    /\ eksLocals = NoEksLocals
    /\ eksPc = "start"
    /\ eksNgIdx = 1
    /\ eksResources = << >>
    /\ eksRet = << >>

NextEks ==
    \/ EksDefaults /\ UNCHANGED notEksVars
    \/ EksCreateServiceRole /\ UNCHANGED notEksVars
    \/ EksCreateNodeGroupRole /\ UNCHANGED notEksVars
    \/ EksCreateCluster /\ UNCHANGED notEksVars
    \/ EksCreateNodeGroup /\ UNCHANGED notEksVars
    \/ EksCreateOidcProvider /\ UNCHANGED notEksVars
    \/ EksCreateAutoscalerPolicy /\ UNCHANGED notEksVars
    \/ EksCreateAutoscalerRole /\ UNCHANGED notEksVars
    \/ EksAttachAutoscalerPolicy /\ UNCHANGED notEksVars

SpecEks == InitEks /\ [][NextEks]_vars

\* one AutoDiscoverSSORoles entry looked up in an account that has roles for
\* some of the permission sets
InitSso ==
    /\ IdleExceptSso
    /\ provisioned \in SUBSET SsoPermissionSets
    /\ lookupConfig \in SsoLookupConfigs
    /\ lookupPc = "start"
    /\ lookupRoles = [err |-> Nil, Arns |-> << >>]
    /\ lookupRet = [roleArn |-> Empty, err |-> Nil]
    /\ lookupBound = << >>

NextSso ==
    \/ LookupSSORole /\ UNCHANGED notSsoVars
    \/ BindSSORole /\ UNCHANGED notSsoVars

SpecSso == InitSso /\ [][NextSso]_vars

----------------------------------------------------------------------------
(* Properties *)

Done      == pc = "done"
Succeeded == pc = "done" /\ err = Nil

\* positions of the separator in s
SepsOf(s) == {i \in 1..Len(s) : s[i] = Sep}
Max(S) == CHOOSE x \in S : \A y \in S : y <= x
Min(S) == CHOOSE x \in S : \A y \in S : x <= y
\* what precedes the first separator of s and what follows the last one
BeforeFirstSep(s) == SubSeq(s, 1, Min(SepsOf(s)) - 1)
AfterLastSep(s)   == IF SepsOf(s) = {} THEN s ELSE SubSeq(s, Max(SepsOf(s)) + 1, Len(s))

\* the lookups of one kind among the calls made, in order
CallsOf(op) == SelectSeq(calls, LAMBDA c : c.op = op)

\* the worker role ARN the configuration resolves to: the role the provider
\* reported for the node group looked up, or the configured one
ResolvedNodeRole ==
    IF config.NodeGroupIamRoleAutoDiscover
    THEN CallsOf("LookupNodeGroup")[1].result[1]
    ELSE config.NodeGroupIamRole

\* the lines of the worker-node element in the mapRoles document
NodeLines(roleArn) ==
    << << "- groups:" >>,
       << "  - ", << "system:bootstrappers" >> >>,
       << "  - ", << "system:nodes" >> >>,
       << "  rolearn: ", roleArn >>,
       << "  username: ", << "system:node:{{EC2PrivateDNSName}}" >> >> >>

\* C1: whenever SyncAuthConfigMap succeeds, mapRoles is not empty and its
\* first element is the worker-node binding: rolearn the resolved node-group
\* role ARN, the fixed node username, groups system:bootstrappers then
\* system:nodes; the mapRoles document starts with that element.
C1_NodeBindingFirst ==
    Succeeded =>
        /\ Len(mapRoles) >= 1
        /\ mapRoles[1].RoleArn = ResolvedNodeRole
        /\ mapRoles[1].Username = << "system:node:{{EC2PrivateDNSName}}" >>
        /\ mapRoles[1].Groups = << << "system:bootstrappers" >>, << "system:nodes" >> >>
        /\ "mapRoles" \in DOMAIN data
        /\ Len(data["mapRoles"]) >= 5
        /\ SubSeq(data["mapRoles"], 1, 5) = NodeLines(ResolvedNodeRole)

\* C1 witness: a successful call with an auto-discovered worker role whose
\* binding is followed by another one, registered with the engine
C1_Witness ==
    /\ Succeeded
    /\ config.NodeGroupIamRoleAutoDiscover
    /\ Len(mapRoles) >= 2
    /\ resources # << >>

\* C2: in initial-import mode no SSO lookup is ever made, so no discovery
\* error can end the call, and a call that succeeds has built exactly the
\* worker-node binding and no mapUsers key, whatever the identity lists hold.
C2_InitialImportOnlyNode ==
    config.InitialImport =>
        /\ CallsOf("GetRoles") = << >>
        /\ err.kind # "discovery"
        /\ Succeeded =>
              /\ mapRoles = << [RoleArn  |-> ResolvedNodeRole,
                                Username |-> << "system:node:{{EC2PrivateDNSName}}" >>,
                                Groups   |-> << << "system:bootstrappers" >>,
                                                << "system:nodes" >> >>] >>
              /\ mapUsers = << >>
              /\ DOMAIN data = {"mapRoles"}
              /\ data["mapRoles"] = NodeLines(ResolvedNodeRole)

\* C2 witness: a successful initial-import call whose configuration names an
\* SSO permission set and an IAM user
C2_Witness ==
    /\ Succeeded
    /\ config.InitialImport
    /\ Len(config.AutoDiscoverSSORoles) >= 1
    /\ Len(config.IAMUsers) >= 1
    /\ resources # << >>

\* the keys of the data mapping in a marshalled ConfigMap document
ManifestDataKeys(manifest) ==
    {manifest[i][1] : i \in {j \in 1..Len(manifest) : Len(manifest[j]) = 2}}
        \cap {"  mapRoles: |", "  mapUsers: |"}

\* C3: once the data payload is built, mapRoles is a key of it and mapUsers
\* is a key exactly when the call is not an initial import and IAMUsers is
\* not empty; mapUsers is never the empty sequence; the registered ConfigMap
\* and the written manifest carry the same keys.
C3_MapUsersIffNonEmpty ==
    LET wantUsers == ~config.InitialImport /\ Len(config.IAMUsers) >= 1
        keys == IF wantUsers THEN {"mapRoles", "mapUsers"} ELSE {"mapRoles"}
        lines == IF wantUsers THEN {"  mapRoles: |", "  mapUsers: |"} ELSE {"  mapRoles: |"}
    IN  /\ data # << >> =>
              /\ DOMAIN data = keys
              /\ (Len(mapUsers) # 0) <=> wantUsers
              /\ "mapUsers" \in DOMAIN data => data["mapUsers"] # << << "[]" >> >>
        /\ \A i \in 1..Len(resources) :
              /\ resources[i].type = "kubernetes:core/v1:ConfigMap" =>
                    DOMAIN resources[i].args.Data = keys
              /\ resources[i].type = "command:local:Command" =>
                    ManifestDataKeys(resources[i].args.Triggers[1]) = lines
        /\ \A f \in files : ManifestDataKeys(f.content) = lines

\* C3 witness: a registered payload of a call that is no initial import, has
\* other identities and no IAM user: the key is left out
C3_Witness ==
    /\ Succeeded
    /\ resources # << >>
    /\ ~config.InitialImport
    /\ Len(config.IAMRoles) >= 1
    /\ config.IAMUsers = << >>
    /\ "mapUsers" \notin DOMAIN data

\* the ARN prefix/name of a pool ARN prefix/.../name
StrippedOf(arn) == << arn[1], Sep, arn[Len(arn)] >>

\* C4: a successful call that is no initial import has built mapRoles as the
\* worker-node binding, then one binding per AutoDiscoverSSORoles entry in
\* input order, then one per IAMRoles entry in input order, and mapUsers as
\* one binding per IAMUsers entry in input order; the payload is the
\* marshalling of exactly these lists.
C4_OrderAndCategories ==
    (Succeeded /\ ~config.InitialImport) =>
        LET nS == Len(config.AutoDiscoverSSORoles)
            nR == Len(config.IAMRoles)
            nU == Len(config.IAMUsers)
            found == CallsOf("GetRoles")
        IN  /\ Len(mapRoles) = 1 + nS + nR
            /\ mapRoles[1].RoleArn = ResolvedNodeRole
            /\ Len(found) = nS
            /\ \A i \in 1..nS :
                  /\ found[i].arg = << "AWSReservedSSO_" >>
                                    \o config.AutoDiscoverSSORoles[i].Name \o << "_.*" >>
                  /\ mapRoles[1 + i].RoleArn = StrippedOf(found[i].result[1])
                  /\ mapRoles[1 + i].Groups = config.AutoDiscoverSSORoles[i].PermissionGroups
            /\ \A j \in 1..nR :
                  /\ mapRoles[1 + nS + j].RoleArn = StrippedOf(config.IAMRoles[j].Arn)
                  /\ mapRoles[1 + nS + j].Groups = config.IAMRoles[j].PermissionGroups
            /\ Len(mapUsers) = nU
            /\ \A k \in 1..nU :
                  /\ mapUsers[k].UserArn = StrippedOf(config.IAMUsers[k].Arn)
                  /\ mapUsers[k].Groups = config.IAMUsers[k].PermissionGroups
            /\ (nS + nR + nU = 0) => (Len(mapRoles) = 1 /\ DOMAIN data = {"mapRoles"})
            /\ data["mapRoles"] = MarshalMapRoles(mapRoles)
            /\ (nU > 0) => data["mapUsers"] = MarshalMapUsers(mapUsers)

\* C4 witness: a successful call with an SSO entry followed by an IAM role
C4_Witness ==
    /\ Succeeded
    /\ ~config.InitialImport
    /\ Len(config.AutoDiscoverSSORoles) >= 1
    /\ Len(config.IAMRoles) >= 1
    /\ Len(mapRoles) = 3
    /\ resources # << >>

\* C5: removeArnPath keeps what precedes the first "/" and what follows the
\* last one: prefix/seg1/.../segk/name becomes prefix/name, an input with a
\* single "/" comes back unchanged, and for every input a second application
\* changes nothing.
C5_RemoveArnPath ==
    /\ arnOut # << >> =>
          /\ Cardinality(SepsOf(arnIn)) >= 2 =>
                arnOut[1] = BeforeFirstSep(arnIn) \o << Sep >> \o AfterLastSep(arnIn)
          /\ Cardinality(SepsOf(arnIn)) = 1 => arnOut[1] = arnIn
    /\ arnOut2 # << >> => arnOut2[1] = arnOut[1]

\* C5 witness: an input with a path, stripped to something else, stripped again
C5_Witness ==
    /\ Cardinality(SepsOf(arnIn)) >= 2
    /\ arnOut # << >>
    /\ arnOut[1] # arnIn
    /\ arnOut2 # << >>

\* the ARN of the example in the description of arnToUsername
ExampleArn == << "arn:aws:iam::123:role", "/", "some", "/", "path", "/", "MyRole" >>

\* C6: arnToUsername has a result for every input string, and the result is
\* what follows the last "/" of the input: the whole input when it has no
\* "/", the empty string when it ends in "/".
C6_ArnToUsername ==
    /\ userOut = << >> => ENABLED CallArnToUsername
    /\ userOut # << >> =>
          /\ userOut[1] = AfterLastSep(arnIn)
          /\ SepsOf(userOut[1]) = {}
          /\ SepsOf(arnIn) = {} => userOut[1] = arnIn
          /\ (arnIn # << >> /\ arnIn[Len(arnIn)] = Sep) => userOut[1] = << >>
    /\ arnToUsername(ExampleArn) = << "MyRole" >>

\* C6 witness: the username of an input with a path, not empty
C6_Witness ==
    /\ Cardinality(SepsOf(arnIn)) >= 2
    /\ userOut # << >>
    /\ userOut[1] # << >>
    /\ userOut[1] # arnIn

\* the username an entry asks for: its Username when not empty, else dflt
UsernameOr(entry, dflt) == IF entry.Username # << >> THEN entry.Username ELSE dflt

\* C7: in a successful call that is no initial import every binding after
\* the worker-node one carries the entry's Username when that is not empty,
\* else the permission-set name (SSO entry) or the last path segment of the
\* configured ARN (IAM role, IAM user); its groups are the entry's
\* PermissionGroups in input order.
C7_Usernames ==
    (Succeeded /\ ~config.InitialImport) =>
        LET sso == config.AutoDiscoverSSORoles
            nS == Len(sso)
        IN  /\ \A i \in 1..nS :
                  /\ mapRoles[1 + i].Username = UsernameOr(sso[i], sso[i].Name)
                  /\ mapRoles[1 + i].Groups = sso[i].PermissionGroups
            /\ \A j \in 1..Len(config.IAMRoles) :
                  LET e == config.IAMRoles[j]
                  IN  /\ mapRoles[1 + nS + j].Username = UsernameOr(e, << e.Arn[Len(e.Arn)] >>)
                      /\ mapRoles[1 + nS + j].Groups = e.PermissionGroups
            /\ \A k \in 1..Len(config.IAMUsers) :
                  LET e == config.IAMUsers[k]
                  IN  /\ mapUsers[k].Username = UsernameOr(e, << e.Arn[Len(e.Arn)] >>)
                      /\ mapUsers[k].Groups = e.PermissionGroups

\* C7 witness: a successful call with an SSO entry that overrides the
\* username and an IAM role with a path that does not
C7_Witness ==
    /\ Succeeded
    /\ ~config.InitialImport
    /\ \E i \in 1..Len(config.AutoDiscoverSSORoles) :
          config.AutoDiscoverSSORoles[i].Username # << >>
    /\ \E j \in 1..Len(config.IAMRoles) :
          /\ config.IAMRoles[j].Username = << >>
          /\ Len(config.IAMRoles[j].Arn) > 3

\* the decimal numeral of a count of matches
Numeral(n) == CASE n = 0 -> "0" [] n = 2 -> "2" [] n = 3 -> "3" [] n = 4 -> "4"

\* C8: each AutoDiscoverSSORoles entry reached is looked up with one
\* iam.GetRoles search, and the latest discoverSSORole call returned: the
\* provider's error as it is; else the one ARN found when exactly one was
\* found; else an empty ARN and an error whose message ends "discovered n"
\* for the n found.
C8_DiscoverSSORole ==
    LET found == CallsOf("GetRoles")
    IN  /\ Len(found) <= Len(config.AutoDiscoverSSORoles)
        /\ \A i \in 1..Len(found) : found[i].arg = << "AWSReservedSSO_" >>
                                         \o config.AutoDiscoverSSORoles[i].Name \o << "_.*" >>
        /\ \A i \in 1..(Len(found) - 1) : found[i].err = Nil /\ Len(found[i].result) = 1
        /\ found # << >> =>
              LET last == found[Len(found)]
                  n == Len(last.result)
              IN  /\ last.err # Nil => ssoRet = [roleArn |-> << >>, err |-> last.err]
                  /\ (last.err = Nil /\ n = 1) =>
                        ssoRet = [roleArn |-> last.result[1], err |-> Nil]
                  /\ (last.err = Nil /\ n # 1) =>
                        /\ ssoRet.roleArn = << >>
                        /\ ssoRet.err.kind = "discovery"
                        /\ Len(ssoRet.err.msg) >= 2
                        /\ SubSeq(ssoRet.err.msg, Len(ssoRet.err.msg) - 1, Len(ssoRet.err.msg))
                              = << "discovered ", Numeral(n) >>
                  /\ (ssoRet.err = Nil) <=> (last.err = Nil /\ n = 1)

\* C8 witness: a search that found two roles
C8_Witness ==
    /\ CallsOf("GetRoles") # << >>
    /\ LET last == CallsOf("GetRoles")[Len(CallsOf("GetRoles"))]
       IN  last.err = Nil /\ Len(last.result) = 2
    /\ ssoRet.err.kind = "discovery"

\* C9: when the lookup of an SSO entry fails, at whatever position, the call
\* has returned that error, has written no file and has registered nothing.
C9_DiscoveryFailureAborts ==
    ssoRet.err # Nil =>
        /\ Done
        /\ err = ssoRet.err
        /\ files = {}
        /\ resources = << >>
        /\ data = << >>

\* C9 witness: the second SSO entry fails after the first was resolved
C9_Witness ==
    /\ ssoRet.err # Nil
    /\ Len(CallsOf("GetRoles")) = 2
    /\ Len(mapRoles) = 2
    /\ Done

\* C10 as claimed: a configuration error whenever auto-discovery lacks the
\* cluster name or the explicit role is missing with auto-discovery off, and
\* no configuration error whenever NodeGroupIamRole is set or auto-discovery
\* has a cluster name.
C10_Original ==
    pc # "start" =>
        LET unusable == \/ config.NodeGroupIamRoleAutoDiscover /\ config.EKSClusterName = << >>
                        \/ ~config.NodeGroupIamRoleAutoDiscover /\ config.NodeGroupIamRole = << >>
            usable == \/ config.NodeGroupIamRole # << >>
                      \/ config.NodeGroupIamRoleAutoDiscover /\ config.EKSClusterName # << >>
        IN  /\ unusable => (Done /\ err.kind = "config")
            /\ usable => err.kind # "config"

\* C10 amended: the auto-discover flag selects the source.  When the selected
\* source is unusable (auto-discovery on without cluster name, whether or not
\* NodeGroupIamRole is set; auto-discovery off without NodeGroupIamRole) the
\* call has returned a configuration error with no lookup, no file and no
\* registration; when the selected source is usable (auto-discovery on with a
\* cluster name; auto-discovery off with NodeGroupIamRole) it never returns
\* a configuration error.
C10_ConfigError ==
    pc # "start" =>
        LET unusable == \/ config.NodeGroupIamRoleAutoDiscover /\ config.EKSClusterName = << >>
                        \/ ~config.NodeGroupIamRoleAutoDiscover /\ config.NodeGroupIamRole = << >>
        IN  /\ unusable =>
                  /\ Done
                  /\ err.kind = "config"
                  /\ calls = << >>
                  /\ files = {}
                  /\ resources = << >>
                  /\ mapRoles = << >>
                  /\ data = << >>
            /\ ~unusable => err.kind # "config"

\* C10 witness: auto-discovery on, no cluster name, NodeGroupIamRole set: the
\* call has returned the configuration error
C10_Witness ==
    /\ Done
    /\ config.NodeGroupIamRoleAutoDiscover
    /\ config.EKSClusterName = << >>
    /\ config.NodeGroupIamRole # << >>
    /\ err.kind = "config"

\* C11: discoverNodeIAMRole ends, for every provider response, with the role
\* ARN of the first node group the provider listed or with an error value;
\* an empty list of node groups gives an error value, not a crash
C11_Original ==
    CallsOf("GetNodeGroups") # << >> =>
        LET g == CallsOf("GetNodeGroups")[1]
            l == CallsOf("LookupNodeGroup")
        IN  \/ g.err # Nil /\ pc = "done" /\ err = g.err
            \/ /\ g.err = Nil
               /\ Len(l) = 1
               /\ l[1].arg = g.result[1]
               /\ IF l[1].err # Nil
                  THEN pc = "done" /\ err = l[1].err
                  ELSE pc # "panic" /\ nodeRoleArn = l[1].result[1]

\* the calls of SyncKubernetesManifest that returned after yaml.NewConfigFile
\* gave its result
AppliedAndReturned == {c \in DOMAIN mcall : mcall[c].pc = "done" /\ mcall[c].applyErr # << >>}
ScratchOf(c) == FileAt(tmpFiles, TempFileName(mcall[c].name))

\* C12 as stated: after SyncKubernetesManifest returns, the scratch file
\* /tmp/<name>.yaml does not exist, whether yaml.NewConfigFile succeeded or
\* returned an error
C12_Original ==
    \A c \in AppliedAndReturned : ScratchOf(c) = {}

\* C12: after SyncKubernetesManifest returns, os.Remove of the scratch file
\* has been attempted, whether yaml.NewConfigFile succeeded or returned an
\* error; the file does not exist when that removal succeeded, and a failed
\* removal leaves the file the call wrote
C12_RemovedUnlessRemoveFails ==
    \A c \in AppliedAndReturned :
        /\ mcall[c].removeErr # << >>
        /\ mcall[c].removeErr = << Nil >> => ScratchOf(c) = {}
        /\ mcall[c].removeErr # << Nil >> =>
              ScratchOf(c) = {[path |-> TempFileName(mcall[c].name),
                               content |-> mcall[c].manifest]}

\* a call whose apply failed and whose scratch file is gone: /tmp is empty
C12_Witness ==
    \E c \in AppliedAndReturned :
        /\ mcall[c].applyErr[1] \in ProviderErrors
        /\ mcall[c].removeErr = << Nil >>
        /\ tmpFiles = {}

\* C13: the error SyncKubernetesManifest returns is the error of
\* yaml.NewConfigFile (nil when it succeeded), whatever the deferred
\* os.Remove gave, and the manifest is applied at most once: once when the
\* apply succeeded, never again after a failure
C13_ReturnsApplyError ==
    \A c \in AppliedAndReturned :
        /\ mcall[c].ret[1].err = mcall[c].applyErr[1]
        /\ Len(SelectSeq(applied, LAMBDA a : a.call = c))
              = IF mcall[c].applyErr = << Nil >> THEN 1 ELSE 0

\* a successful apply followed by a failed delete: the call returns nil
C13_Witness ==
    \E c \in AppliedAndReturned :
        /\ mcall[c].applyErr = << Nil >>
        /\ mcall[c].removeErr[1] \in IoErrors
        /\ mcall[c].err \in IoErrors
        /\ mcall[c].ret[1].err = Nil

\* C19: any two calls of the manifest synchronizer use distinct scratch
\* paths, so the file a call wrote and has not yet applied is still the one
\* it wrote: no other call overwrote or deleted it
C19_Original ==
    /\ \A c, d \in DOMAIN mcall :
          (c # d /\ mcall[c].pc # "start" /\ mcall[d].pc # "start")
              => TempFileName(mcall[c].name) # TempFileName(mcall[d].name)
    /\ \A c \in DOMAIN mcall :
          mcall[c].pc = "apply"
              => ScratchOf(c) = {[path |-> TempFileName(mcall[c].name),
                                  content |-> mcall[c].manifest]}

\* the three assignments of deployPlatformApplicationManifest have run
Materialized == appPc \in {"sync", "done"} /\ application # << >>
\* the template as NewApplicationFromBytes decoded it
DecodedTemplate == NewApplicationFromBytes(template).application[1]

\* C14: materializing the platform Application sets Spec.SyncPolicy,
\* Spec.Source.TargetRevision and Spec.Source.Helm.Values to the override
\* values and leaves every other field at the template's value
C14_ExactlyThreeFields ==
    Materialized =>
        LET a == application[1]
            t == DecodedTemplate
        IN  /\ a.Spec.SyncPolicy = appCfg.SyncPolicy
            /\ a.Spec.Source.TargetRevision = appCfg.TargetRevision
            /\ a.Spec.Source.Helm.Values = appCfg.Values
            /\ a.ApiVersion = t.ApiVersion
            /\ a.Kind = t.Kind
            /\ a.Metadata = t.Metadata
            /\ a.Spec.Source.RepoUrl = t.Spec.Source.RepoUrl
            /\ a.Spec.Source.Path = t.Spec.Source.Path
            /\ a.Spec.Source.Chart = t.Spec.Source.Chart
            /\ a.Spec.Source.Helm.ReleaseName = t.Spec.Source.Helm.ReleaseName
            /\ a.Spec.Source.Helm.Version = t.Spec.Source.Helm.Version
            /\ a.Spec.Destination = t.Spec.Destination
            /\ a.Spec.Project = t.Spec.Project
            /\ a.Spec.IgnoreDifferences = t.Spec.IgnoreDifferences

\* a template with a helm release name, values and a target revision of its
\* own, materialized with overrides that differ from it in all three fields
C14_Witness ==
    /\ Materialized
    /\ DecodedTemplate.Spec.Source.Helm.ReleaseName # Empty
    /\ application[1].Spec.Source.Helm.Values # DecodedTemplate.Spec.Source.Helm.Values
    /\ application[1].Spec.Source.TargetRevision # DecodedTemplate.Spec.Source.TargetRevision
    /\ application[1].Spec.SyncPolicy # DecodedTemplate.Spec.SyncPolicy
    /\ synced # << >>

\* C15: when the template has a non-empty Helm values string and the
\* override's Values string is empty, the materialized Application keeps the
\* template's Helm values
C15_Original ==
    (/\ Materialized
     /\ DecodedTemplate.Spec.Source.Helm.Values # Empty
     /\ appCfg.Values = Empty)
        => application[1].Spec.Source.Helm.Values = DecodedTemplate.Spec.Source.Helm.Values

\* C16 as stated: the run function never lets a panic escape; if the body
\* panics it returns a non-nil error derived from the panic, if the body
\* leaves a non-nil error without panicking it returns that error, and
\* otherwise it returns nil
C16_Original ==
    mainPc = "done" =>
        /\ panicking = << >>
        /\ IF body.panic # << >>
           THEN /\ mainRet[1] # Nil
                /\ \E r \in RecoverResults(body.panic) : mainRet[1] = RecoverErr(r)
           ELSE mainRet[1] = body.err

\* C16: the run function never lets a panic escape.  If the body left a
\* non-nil error in err, that error is returned, whether or not the body
\* then panicked.  If err is nil and the body panicked with a value that
\* recover() reports, a non-nil error derived from that value is returned.
\* Otherwise (no panic, or a panic(nil) that recover() reports as nil) nil
\* is returned.
C16_RecoversPanic ==
    mainPc = "done" =>
        /\ panicking = << >>
        /\ body.err # Nil => mainRet[1] = body.err
        /\ (body.err = Nil /\ body.panic = << >>) => mainRet[1] = Nil
        /\ (body.err = Nil /\ body.panic # << >>) =>
              \/ /\ mainRet[1] # Nil
                 /\ mainRet[1].kind = "panic"
                 /\ body.panic[1].type # "nil" => mainRet[1].msg = body.panic[1].val
                 /\ mainLog = << << "pulumi panicked", mainRet[1] >> >>
              \/ /\ body.panic[1].type = "nil"
                 /\ mainRet[1] = Nil

\* a body that set err and then panicked: the run function returned err,
\* and logged the panic
C16_Witness ==
    /\ mainPc = "done"
    /\ body.err \in ProviderErrors
    /\ body.panic # << >>
    /\ body.panic[1].type = "runtime.Error"
    /\ mainRet = << body.err >>
    /\ mainLog # << >>

VpcSucceeded == vpcPc = "done" /\ vpcRet[1].err = Nil
Zones == vpcConfig.AvailabilityZones
\* the registered resources of a type, and those whose name has the kind, in
\* the order of registration
RegisteredOf(type) == SelectSeq(vpcResources, LAMBDA r : r.type = type)
RegisteredAs(type, kind) ==
    SelectSeq(vpcResources, LAMBDA r : r.type = type /\ r.name[Len(StackName) + 1] = kind)
PublicSubnets  == RegisteredAs("ec2.Subnet", "-public-subnet-")
PrivateSubnets == RegisteredAs("ec2.Subnet", "-private-subnet-")
NatGateways    == RegisteredOf("ec2.NatGateway")
Eips           == RegisteredOf("ec2.Eip")
RangeOf(s)     == {s[i] : i \in 1..Len(s)}

\* C17: when CreateVpcInfrastructure succeeds for N availability zones, it
\* has registered exactly N public subnets, N NAT gateways with N elastic
\* IPs and N private subnets, and the output lists PublicSubnetIDs,
\* PrivateSubnetIDs and NatGatewayIPs have length N with element i
\* belonging to zone i of the input
C17_OnePerZone ==
    VpcSucceeded =>
        LET out == vpcRet[1].output[1]
            n   == Len(Zones)
        IN  /\ Len(PublicSubnets) = n
            /\ Len(PrivateSubnets) = n
            /\ Len(RegisteredOf("ec2.Subnet")) = 2 * n
            /\ Len(NatGateways) = n
            /\ Len(Eips) = n
            /\ Len(out.PublicSubnetIDs) = n
            /\ Len(out.PrivateSubnetIDs) = n
            /\ Len(out.NatGatewayIPs) = n
            /\ Cardinality(RangeOf(out.PublicSubnetIDs) \cup RangeOf(out.PrivateSubnetIDs)
                           \cup RangeOf(out.NatGatewayIPs)) = 3 * n
            /\ \A i \in 1..n :
                  /\ out.PublicSubnetIDs[i] = IdOf(PublicSubnets[i])
                  /\ PublicSubnets[i].args.AvailabilityZone = Zones[i].AzName
                  /\ PublicSubnets[i].args.CidrBlock = Zones[i].PublicSubnetCidr
                  /\ out.PrivateSubnetIDs[i] = IdOf(PrivateSubnets[i])
                  /\ PrivateSubnets[i].args.AvailabilityZone = Zones[i].AzName
                  /\ PrivateSubnets[i].args.CidrBlock = Zones[i].PrivateSubnetCidr
                  /\ out.NatGatewayIPs[i] = IdOf(Eips[i])
                  /\ NatGateways[i].args.AllocationId = IdOf(Eips[i])
                  /\ NatGateways[i].args.SubnetId = IdOf(PublicSubnets[i])

\* a successful call for two different zones
C17_Witness ==
    /\ VpcSucceeded
    /\ Len(Zones) = 2
    /\ Zones[1].AzName # Zones[2].AzName
    /\ Len(vpcRet[1].output[1].NatGatewayIPs) = 2

Routes       == RangeOf(RegisteredOf("ec2.Route"))
Associations == RangeOf(RegisteredOf("ec2.RouteTableAssociation"))
\* the default routes of the route tables the subnet is associated with
AssociationsOf(subnet) == {a \in Associations : a.args.SubnetId = IdOf(subnet)}
DefaultRoutesOf(subnet) ==
    {r \in Routes : /\ r.args.DestinationCidrBlock = DefaultCidr
                    /\ \E a \in AssociationsOf(subnet) :
                          r.args.RouteTableId = a.args.RouteTableId}

\* C18: for every zone i whose iteration completed (all of them when the
\* call succeeded), the private subnet of zone i is associated with exactly
\* one route table, whose only default route targets NAT gateway i, which
\* sits in the public subnet of zone i; the public subnet's route table has
\* the internet gateway as its only default route; no NAT gateway is the
\* target of two routes and no route through the internet gateway is a
\* private one
C18_OwnZoneNat ==
    /\ VpcSucceeded => azIdx = Len(Zones)
    /\ Len(RegisteredOf("ec2.InternetGateway")) <= 1
    /\ \A nat \in RangeOf(NatGateways) :
          Cardinality({r \in Routes : r.args.NatGatewayId = IdOf(nat)}) <= 1
    /\ \A i \in 1..azIdx :
          /\ Cardinality(AssociationsOf(PrivateSubnets[i])) = 1
          /\ Cardinality(DefaultRoutesOf(PrivateSubnets[i])) = 1
          /\ \A r \in DefaultRoutesOf(PrivateSubnets[i]) :
                /\ r.args.NatGatewayId = IdOf(NatGateways[i])
                /\ r.args.GatewayId = Empty
          /\ NatGateways[i].args.SubnetId = IdOf(PublicSubnets[i])
          /\ PublicSubnets[i].args.AvailabilityZone = Zones[i].AzName
          /\ PrivateSubnets[i].args.AvailabilityZone = Zones[i].AzName
          /\ Cardinality(AssociationsOf(PublicSubnets[i])) = 1
          /\ Cardinality(DefaultRoutesOf(PublicSubnets[i])) = 1
          /\ \A r \in DefaultRoutesOf(PublicSubnets[i]) :
                /\ r.args.GatewayId = IdOf(RegisteredOf("ec2.InternetGateway")[1])
                /\ r.args.NatGatewayId = Empty

\* two zones done: each private subnet has its route through its own NAT
\* gateway, and the two NAT gateways differ
C18_Witness ==
    /\ VpcSucceeded
    /\ azIdx = 2
    /\ \A i \in 1..2 : \E r \in DefaultRoutesOf(PrivateSubnets[i]) :
          r.args.NatGatewayId = IdOf(NatGateways[i])
    /\ IdOf(NatGateways[1]) # IdOf(NatGateways[2])

\* C20: an error returned by the manifest-apply step is returned unchanged
\* by the synchronization function that invoked it: once SyncAuthConfigMap
\* has returned after applying the aws-auth manifest, its result is the
\* result of the apply, never nil for a failed apply
C20_Original ==
    (pc = "done" /\ applyRet # << >>) => err = applyRet[1]

\* the ARNs in the rolearn and userarn fields of the lists built so far
EmittedArns ==
    {mapRoles[i].RoleArn : i \in 1..Len(mapRoles)}
    \cup {mapUsers[i].UserArn : i \in 1..Len(mapUsers)}

\* C22: every ARN SyncAuthConfigMap emits in a rolearn or userarn field has
\* its path stripped, that is, it has exactly one "/": for the worker-node
\* binding, for SSO roles, for IAM roles and for IAM users
C22_Original ==
    \A arn \in EmittedArns : Cardinality(SepsOf(arn)) = 1

\* C28: the auto-discover flag alone selects the source of the worker role.
\* With the flag set the explicit NodeGroupIamRole is never used, even when
\* it is set: without a cluster name the call returns the configuration
\* error with no lookup; with one, the node groups are looked up and the
\* binding's rolearn is the role found, or the call returns the provider's
\* error (or stops in the lookup of an empty node group list).  With the
\* flag clear no node-group lookup is made and the binding's rolearn is
\* NodeGroupIamRole.
C28_FlagSelectsSource ==
    pc # "start" =>
        LET groups  == CallsOf("GetNodeGroups")
            lookups == CallsOf("LookupNodeGroup")
        IN  IF config.NodeGroupIamRoleAutoDiscover
            THEN /\ nodeRoleArn # << >> => nodeRoleArn # config.NodeGroupIamRole
                 /\ IF config.EKSClusterName = << >>
                    THEN Done /\ err = ErrNoClusterName /\ groups = << >> /\ mapRoles = << >>
                    ELSE /\ Len(groups) = 1
                         /\ groups[1].arg = config.EKSClusterName
                         /\ \/ /\ Len(lookups) = 1
                               /\ lookups[1].err = Nil
                               /\ mapRoles[1].RoleArn = lookups[1].result[1]
                            \/ /\ Done
                               /\ mapRoles = << >>
                               /\ err \in ProviderErrors
                               /\ err = IF groups[1].err # Nil THEN groups[1].err
                                        ELSE lookups[1].err
                            \/ /\ pc = "panic"
                               /\ groups[1].err = Nil
                               /\ groups[1].result = << >>
                               /\ mapRoles = << >>
            ELSE /\ groups = << >>
                 /\ lookups = << >>
                 /\ IF config.NodeGroupIamRole = << >>
                    THEN Done /\ err = ErrNoNodeRole /\ mapRoles = << >>
                    ELSE mapRoles[1].RoleArn = config.NodeGroupIamRole

\* both fields set and the flag on: the binding carries the discovered role
C28_Witness ==
    /\ Succeeded
    /\ config.NodeGroupIamRoleAutoDiscover
    /\ config.NodeGroupIamRole # << >>
    /\ CallsOf("LookupNodeGroup") # << >>
    /\ mapRoles[1].RoleArn = CallsOf("LookupNodeGroup")[1].result[1]
    /\ mapRoles[1].RoleArn # config.NodeGroupIamRole

\* C30: SyncKubernetesManifest runs write, apply, delete in this order.
\* yaml.NewConfigFile is invoked only after a successful write, while the
\* scratch file exists and holds exactly the manifest, which is what it
\* registers; os.Remove is called only after yaml.NewConfigFile returned;
\* and after a failed write the call has returned the write error with no
\* apply and no delete.
C30_WriteApplyDelete ==
    \A c \in DOMAIN mcall :
        LET call == mcall[c]
            file == [path |-> TempFileName(call.name), content |-> call.manifest]
        IN  /\ call.pc = "start" => call.writeErr = << >>
            /\ call.pc = "apply" => (call.writeErr = << Nil >> /\ ScratchOf(c) = {file})
            /\ call.applyErr # << >> => call.writeErr = << Nil >>
            /\ \A i \in 1..Len(applied) :
                  applied[i].call = c => applied[i].content = call.manifest
            /\ call.removeErr # << >> => call.applyErr # << >>
            /\ call.pc = "deferred" => call.applyErr # << >>
            /\ (call.writeErr # << >> /\ call.writeErr # << Nil >>) =>
                  /\ call.pc = "done"
                  /\ call.ret[1].err = call.writeErr[1]
                  /\ call.applyErr = << >>
                  /\ call.removeErr = << >>
                  /\ applied = << >>

\* a call that wrote its file, applied its own manifest and deleted the
\* file, with the stale file of another name left alone
C30_Witness ==
    /\ mcall["A"].pc = "done"
    /\ mcall["A"].writeErr = << Nil >>
    /\ mcall["A"].applyErr = << Nil >>
    /\ mcall["A"].removeErr = << Nil >>
    /\ Len(applied) = 1
    /\ applied[1].content = mcall["A"].manifest
    /\ \E f \in tmpFiles : f.content = StaleContent

\* C29: every scratch file a run of the kubectl shim writes is removed once
\* the run and the engine are through with it, whatever the outcome: when
\* kubectl apply fails, when registering the command fails, and when the
\* engine does not execute the command
C29_Original ==
    shimPc = "finished" => FileAt(shimFiles, TempFileName(shimInput.name)) = {}

\* C21: every key lookup of ReplaceSecretsFromPulumi waits on a WaitGroup of
\* count 1 that only the engine's callback releases, once.  A lookup whose
\* callback the engine runs returns, and returns the value the callback
\* received, with a nil error; a lookup whose output the engine never resolves
\* never returns, and nothing (no value, no error) is returned for it.
C21_Released ==
    /\ wg \in {0, 1}
    /\ (wg = 1) <=> (callback = "pending")
    /\ \A i \in 1..Len(secRets) :
          /\ secRets[i].received = << SecretStore[StripKey(secKeys[i])] >>
          /\ secRets[i].value = secRets[i].received[1]
          /\ secRets[i].err = Nil
    /\ deferredAt # 0 => Len(secRets) < deferredAt

C21_BlocksUntilCallback ==
    /\ []C21_Released
    /\ \A i \in 1..MaxKeys :
          (secIdx = i /\ callback = "invoked") ~> (Len(secRets) >= i)

\* two lookups of different keys returned, each the value of its own key
C21_Witness ==
    /\ secPc = "returned"
    /\ Len(secRets) >= 2
    /\ secRets[1].value # secRets[2].value
    /\ deferredAt = 0

\* the chain of C23 and the resources of it a run with this configuration creates
DependencyChain ==
    << RemoteWriteSecretName, KubePrometheusStackName, ArgocdName,
       PlatformApplicationName, CertManagerSecretName >>

CreatedByRun(r) ==
    CASE r = RemoteWriteSecretName ->
             bsVariant = "bootstrap.go" /\ bsConfig.ManagePrometheusRemoteWriteBasicAuthSecret
      [] r = PlatformApplicationName -> bsConfig.PlatformApplicationEnabled
      [] OTHER -> TRUE

\* C23: in every apply order, a resource of the chain remote-write secret ->
\* kube-prometheus-stack -> argo-cd -> cluster-services Application ->
\* cert-manager secret is applied only after its predecessor has been applied
C23_Original ==
    \A i \in 1..(Len(DependencyChain) - 1) :
        (DependencyChain[i + 1] \in bsApplied /\ CreatedByRun(DependencyChain[i]))
            => DependencyChain[i] \in bsApplied

\* C24: every depends-on list BootstrapCluster passes holds only resources
\* registered earlier in the run, never a nil resource, and a run in which no
\* registration fails registers the cert-manager secret
C24_Original ==
    /\ bsPc # "panic"
    /\ \A i \in 1..Len(bsRegistered) :
          \A d \in DependenciesOf(bsRegistered[i]) :
              /\ d # NilResource
              /\ \E j \in 1..(i - 1) : bsRegistered[j].name = d
    /\ (bsPc = "done" /\ bsRet = << Nil >>)
          => \E i \in 1..Len(bsRegistered) : bsRegistered[i].name = CertManagerSecretName

\* the node group version C25 describes
ConfiguredNodeGroupVersion(c) ==
    IF c.NodeGroupVersion # Empty THEN c.NodeGroupVersion ELSE c.K8sVersion

\* C25: after the defaulting of CreateEksCluster the node group version is
\* the configured NodeGroupVersion when that is not empty and the K8sVersion
\* otherwise, and every node group is created with that version
C25_Original ==
    eksPc \notin {"idle", "start"} =>
        /\ eksConfig.NodeGroupVersion = ConfiguredNodeGroupVersion(eksInput)
        /\ \A i \in 1..Len(eksResources) :
              eksResources[i].kind = "nodegroup" =>
                  RunningVersion(eksResources[i], eksInput.K8sVersion)
                      = ConfiguredNodeGroupVersion(eksInput)

\* C26: the condition key of the IRSA policy is the provider URL without its
\* leading "https://", nothing else removed, followed by ":sub", and the value
\* is system:serviceaccount:<namespace>:<serviceAccount>
C26_Original ==
    \A i \in 1..Len(eksResources) :
        eksResources[i].name = "cluster-autoscaler-role" =>
            /\ eksResources[i].condition.key = TrimPrefix(eksIssuer, HttpsScheme) \o << ":sub" >>
            /\ eksResources[i].condition.value =
                  << "system:serviceaccount:" >> \o eksLocals.namespace \o << ":" >> \o eksLocals.serviceAccount

\* C27: a role discoverSSORole returns for a permission set name is the role
\* provisioned for the permission set of exactly that name, and so is the
\* role SyncAuthConfigMap binds the groups of the entry to
C27_Original ==
    /\ (lookupPc \in {"returned", "bound"} /\ lookupRet.err = Nil)
          => lookupRet.roleArn = SsoRoleArn(lookupConfig.Name)
    /\ \A i \in 1..Len(lookupBound) :
          lookupBound[i].RoleArn = removeArnPath(SsoRoleArn(lookupConfig.Name))

=============================================================================
